---- MODULE Spec2Model ----
(***************************************************************************)
(* Model of the core of cc-config-viewer (src-tauri/src): the capability   *)
(* diff engine (calculate_diff, calculate_summary_stats), the stack-based  *)
(* project scanner (scan_projects, scan_directory, check_if_project), the  *)
(* project comparison (compare_projects and its extractors) and the        *)
(* startup sequence (the setup closure of lib.rs, watch_config_files).     *)
(*                                                                         *)
(* Option<T> is modelled as a sequence: <<>> is None, <<x>> is Some(x).    *)
(***************************************************************************)
EXTENDS Integers, Sequences, FiniteSets, TLC

VARIABLES
    \* ---- diff engine: one call of calculate_diff / calculate_summary_stats
    left,          \* left_capabilities: Vec<Capability>
    right,         \* right_capabilities: Vec<Capability>
    diffs,         \* the Vec<DiffResult> returned by calculate_diff
    stats,         \* Option<SummaryStats> returned by calculate_summary_stats
    dpc,           \* position of the diff caller: "start", "given", "diffed",
                   \* "summarized", "categorized", "recategorized"
    cat_runs,      \* the Vec<DiffResult> returned by each categorize_differences call
    \* ---- scanner: one call of scan_directory
    fs,            \* the (unchanging) filesystem the scan runs over
    start_dir,     \* start_dir: the path the scan is rooted at
    config,        \* ScanConfig {max_depth, include_hidden}
    dir_stack,     \* dir_stack: Vec<(PathBuf, u32)>, top of stack is the last element
    projects,      \* projects: Vec<DiscoveredProject>
    current,       \* Option<(current_dir, current_depth)> of the for-loop in progress
    entries,       \* names of the directory entries the for-loop has not yet visited
    expanded,      \* history: the (dir, depth) pairs whose read_dir succeeded, in order
    spc,           \* position of the scan: "called", "loop", "iter", "returned"
    scan_result,   \* "none" while running, then "Ok" or "Err"
    \* ---- scan_projects: the command in front of scan_directory
    depth_arg,     \* depth: u32, the argument of scan_projects
    home,          \* Option<PathBuf> that dirs::home_dir() gives
    \* ---- one call of check_if_project
    proj_dir,      \* dir: the path handed to check_if_project
    proj_content,  \* what the filesystem holds directly inside dir
    proj_result,   \* Option<DiscoveredProject> returned
    ppc,           \* position of the caller: "start", "done"
    \* ---- one call of compare_projects
    cmp_in,        \* [left, right]: what left_path and right_path name
    cmp_examined,  \* history: the sides extract_project_capabilities was called for
    cmp_result,    \* "none" while running, then "Ok" or "Err"
    cpc,           \* position: "start", "left_done", "right_done", "done"
    \* ---- two calls of scan_directory running concurrently
    conc_fs,       \* the (unchanging) filesystem both scans run over
    scans,         \* per call: its arguments and its local variables
    \* ---- application startup (the setup closure of lib.rs)
    env,           \* what the operating system answers during startup
    watched,       \* paths registered with the debouncer's watcher
    watcher_state, \* TRUE once WatcherState is stored in Tauri managed state
    watch_result,  \* result of watch_config_files: "none", "Ok", "Err"
    logger_result, \* result of init_error_logger: "none", "Ok", "Err"
    setup_pc,      \* position of setup: "start", "watched", "logged", "done"
    setup_result,  \* what the setup closure returns: "none", "Ok", "Err"
    \* ---- the watchers started by watch_config_files and watch_projects
    watchers,      \* history: per start of a watcher, its kind, result and watch roots
    held,          \* which watcher's debouncer managed state holds, 0 when none
    handled,       \* history: the debounced events a callback was run for
    emitted        \* the events sent to the frontend, in order

diffVars == <<left, right, diffs, stats, dpc, cat_runs>>
scanVars == <<fs, start_dir, config, dir_stack, projects, current, entries, expanded,
              spc, scan_result>>
entryVars == <<depth_arg, home>>
projVars == <<proj_dir, proj_content, proj_result, ppc>>
cmpVars == <<cmp_in, cmp_examined, cmp_result, cpc>>
concVars == <<conc_fs, scans>>
watchVars == <<watchers, held, handled, emitted>>
setupVars == <<env, watched, watcher_state, watch_result, logger_result, setup_pc,
               setup_result, watchVars>>
vars == <<diffVars, scanVars, entryVars, projVars, cmpVars, concVars, setupVars>>

(***************************************************************************)
(* Bounds of the model.                                                    *)
(***************************************************************************)
MaxLen == 2          \* longest capability collection drawn as an input
MaxDepth == 3        \* largest ScanConfig.max_depth drawn as an input
MaxRequest == 7      \* largest small depth argument drawn for scan_projects
MaxResults == 4      \* longest DiffResult sequence handed in by the frontend
MaxWatchCalls == 2   \* most calls of watch_projects after startup
MaxEvents == 2       \* most debounced filesystem events handled

(***************************************************************************)
(* Small helpers.                                                          *)
(***************************************************************************)
Max(S) == CHOOSE x \in S : \A y \in S : y <= x

SeqsUpTo(S, n) == UNION {[1..k -> S] : k \in 0..n}

Range(seq) == {seq[n] : n \in DOMAIN seq}

(***************************************************************************)
(* types/app.rs: Capability, DiffResult, DiffStatus, DiffSeverity          *)
(***************************************************************************)
CapIds == {"a", "b"}
CapValues == {"v1", "v2"}                 \* serde_json::Value, compared structurally
\* (key, source) pairs a capability may carry besides its id and value
CapOrigins == {[key |-> "k1", source |-> "project"], [key |-> "k2", source |-> "user"]}

Capability ==
    {[id |-> i, key |-> o.key, value |-> v, source |-> o.source] :
        i \in CapIds, v \in CapValues, o \in CapOrigins}

DiffStatus == {"Match", "Different", "Conflict", "OnlyLeft", "OnlyRight"}
DiffSeverity == {"Low", "Medium", "High"}

HighlightNone == ""
HighlightOnlyLeft == "bg-blue-100 text-blue-800"
HighlightOnlyRight == "bg-green-100 text-green-800"
HighlightDifferent == "bg-yellow-100 text-yellow-800"

DiffResult(id, l, r, st, sev, hl) ==
    [capability_id |-> id, left_value |-> l, right_value |-> r,
     status |-> st, severity |-> sev, highlight_class |-> hl]

(***************************************************************************)
(* calculate_diff                                                          *)
(***************************************************************************)
IdsOf(caps) == {caps[n].id : n \in DOMAIN caps}

\* caps.iter().map(|cap| (cap.id.clone(), cap)).collect::<HashMap<_,_>>():
\* inserting in order, a later item with the same id replaces the earlier one.
\* variant: the first item with an id is kept (an insert that does not overwrite)
CapMapFirst(caps) ==
    [i \in IdsOf(caps) |->
        caps[CHOOSE n \in DOMAIN caps :
                /\ caps[n].id = i
                /\ \A m \in DOMAIN caps : caps[m].id = i => n <= m]]

CapMap(caps) ==
    [i \in IdsOf(caps) |-> caps[Max({n \in DOMAIN caps : caps[n].id = i})]]

\* variant: compares the whole capability (key and source too), not only value
LeftResultWholeCap(left_cap, right_map) ==
    IF left_cap.id \in DOMAIN right_map
    THEN IF left_cap = right_map[left_cap.id]
         THEN DiffResult(left_cap.id, <<left_cap>>, <<right_map[left_cap.id]>>,
                         "Match", "Low", <<HighlightNone>>)
         ELSE DiffResult(left_cap.id, <<left_cap>>, <<right_map[left_cap.id]>>,
                         "Different", "Medium", <<HighlightDifferent>>)
    ELSE DiffResult(left_cap.id, <<left_cap>>, <<>>,
                    "OnlyLeft", "Medium", <<HighlightOnlyLeft>>)

\* body of the first loop (for left_cap in &left_capabilities)
LeftResult(left_cap, right_map) ==
    IF left_cap.id \in DOMAIN right_map
    THEN IF left_cap.value = right_map[left_cap.id].value
         THEN DiffResult(left_cap.id, <<left_cap>>, <<right_map[left_cap.id]>>,
                         "Match", "Low", <<HighlightNone>>)
         ELSE DiffResult(left_cap.id, <<left_cap>>, <<right_map[left_cap.id]>>,
                         "Different", "Medium", <<HighlightDifferent>>)
    ELSE DiffResult(left_cap.id, <<left_cap>>, <<>>,
                    "OnlyLeft", "Medium", <<HighlightOnlyLeft>>)

\* variant: the second loop's test lost its negation (emits the ids that ARE in left)
RightOnlyResultsInverted(right_caps, left_map) ==
    LET kept == SelectSeq(right_caps, LAMBDA c : c.id \in DOMAIN left_map)
    IN  [n \in 1..Len(kept) |->
            DiffResult(kept[n].id, <<>>, <<kept[n]>>,
                       "OnlyRight", "Medium", <<HighlightOnlyRight>>)]

\* variant: the second loop stores the snapshot in left_value
RightOnlyResultsLeftSlot(right_caps, left_map) ==
    LET kept == SelectSeq(right_caps, LAMBDA c : c.id \notin DOMAIN left_map)
    IN  [n \in 1..Len(kept) |->
            DiffResult(kept[n].id, <<kept[n]>>, <<>>,
                       "OnlyRight", "Medium", <<HighlightOnlyRight>>)]

\* body of the second loop (for right_cap in &right_capabilities)
RECURSIVE RightOnlyResults(_, _)
RightOnlyResults(right_caps, left_map) ==
    IF right_caps = <<>> THEN <<>>
    ELSE LET right_cap == Head(right_caps)
             rest == RightOnlyResults(Tail(right_caps), left_map)
         IN  IF right_cap.id \notin DOMAIN left_map
             THEN <<DiffResult(right_cap.id, <<>>, <<right_cap>>,
                               "OnlyRight", "Medium", <<HighlightOnlyRight>>)>> \o rest
             ELSE rest

\* variant: the second loop (right-only items) is missing
calculate_diff_no_right_pass(left_capabilities, right_capabilities) ==
    LET right_map == CapMap(right_capabilities)
    IN  [n \in 1..Len(left_capabilities) |-> LeftResult(left_capabilities[n], right_map)]

\* variant: the first loop starts one item late (off by one)
calculate_diff_skip_first(left_capabilities, right_capabilities) ==
    LET right_map == CapMap(right_capabilities)
        left_map == CapMap(left_capabilities)
        rest == IF left_capabilities = <<>> THEN <<>> ELSE Tail(left_capabilities)
    IN  [n \in 1..Len(rest) |-> LeftResult(rest[n], right_map)]
        \o RightOnlyResults(right_capabilities, left_map)

\* variant: only the first occurrence of an id on a side yields a result
calculate_diff_dedup(left_capabilities, right_capabilities) ==
    LET right_map == CapMap(right_capabilities)
        left_map == CapMap(left_capabilities)
        firstL == SelectSeq([n \in 1..Len(left_capabilities) |->
                                <<n, left_capabilities[n]>>],
                            LAMBDA p : \A m \in 1..(p[1] - 1) :
                                left_capabilities[m].id # p[2].id)
        firstR == SelectSeq([n \in 1..Len(right_capabilities) |->
                                <<n, right_capabilities[n]>>],
                            LAMBDA p : \A m \in 1..(p[1] - 1) :
                                right_capabilities[m].id # p[2].id)
    IN  [n \in 1..Len(firstL) |-> LeftResult(firstL[n][2], right_map)]
        \o RightOnlyResults([n \in 1..Len(firstR) |-> firstR[n][2]], left_map)

\* variant: the two loops run in the other order
calculate_diff_right_first(left_capabilities, right_capabilities) ==
    LET right_map == CapMap(right_capabilities)
        left_map == CapMap(left_capabilities)
    IN  RightOnlyResults(right_capabilities, left_map)
        \o [n \in 1..Len(left_capabilities) |-> LeftResult(left_capabilities[n], right_map)]

calculate_diff(left_capabilities, right_capabilities) ==
    LET right_map == CapMap(right_capabilities)
        left_map == CapMap(left_capabilities)
    IN  [n \in 1..Len(left_capabilities) |-> LeftResult(left_capabilities[n], right_map)]
        \o RightOnlyResults(right_capabilities, left_map)

(***************************************************************************)
(* calculate_summary_stats                                                 *)
(***************************************************************************)
RECURSIVE SummaryLoop(_, _)
\* for diff in diff_results { match diff.status {...} } over the three counters
SummaryLoop(diff_results, acc) ==
    IF diff_results = <<>> THEN acc
    ELSE LET diff == Head(diff_results)
             next ==
                 CASE diff.status = "OnlyLeft" ->
                        [acc EXCEPT !.only_in_a = @ + 1]
                   [] diff.status = "OnlyRight" ->
                        [acc EXCEPT !.only_in_b = @ + 1]
                   [] diff.status \in {"Different", "Conflict"} ->
                        [acc EXCEPT !.different_values = @ + 1]
                   [] diff.status = "Match" -> acc
         IN  SummaryLoop(Tail(diff_results), next)

\* variant: total_differences is the number of results, matches included
calculate_summary_stats_len(diff_results) ==
    LET c == SummaryLoop(diff_results,
                         [only_in_a |-> 0, only_in_b |-> 0, different_values |-> 0])
    IN  [total_differences |-> Len(diff_results),
         only_in_a |-> c.only_in_a,
         only_in_b |-> c.only_in_b,
         different_values |-> c.different_values]

calculate_summary_stats(diff_results) ==
    LET c == SummaryLoop(diff_results,
                         [only_in_a |-> 0, only_in_b |-> 0, different_values |-> 0])
    IN  [total_differences |-> c.only_in_a + c.only_in_b + c.different_values,
         only_in_a |-> c.only_in_a,
         only_in_b |-> c.only_in_b,
         different_values |-> c.different_values]

(***************************************************************************)
(* The diff caller: draws two collections, calls calculate_diff, then      *)
(* calculate_summary_stats on the result.                                  *)
(***************************************************************************)
DiffInit ==
    /\ left \in SeqsUpTo(Capability, MaxLen)
    /\ right \in SeqsUpTo(Capability, MaxLen)
    /\ diffs = <<>>
    /\ stats = <<>>
    /\ dpc = "start"
    /\ cat_runs = <<>>

CallCalculateDiff ==
    /\ dpc = "start"
    /\ diffs' = calculate_diff(left, right)
    /\ dpc' = "diffed"
    /\ UNCHANGED <<left, right, stats, cat_runs>>

\* DiffResult values the frontend may construct itself and send to the commands
\* that take a Vec<DiffResult>: any status, with or without a highlight class
ExternalLeft == [id |-> "a", key |-> "k1", value |-> "v1", source |-> "project"]
ExternalRight == [id |-> "a", key |-> "k1", value |-> "v2", source |-> "project"]
ExternalResults ==
    {DiffResult("a", <<ExternalLeft>>, <<ExternalRight>>, st,
                IF st = "Conflict" THEN "High" ELSE "Medium", hl) :
        st \in DiffStatus, hl \in {<<>>, <<"custom">>}}

\* the frontend invokes a command with a DiffResult sequence of its own
ResultsInit ==
    /\ left = <<>>
    /\ right = <<>>
    /\ diffs \in SeqsUpTo(ExternalResults, MaxResults)
    /\ stats = <<>>
    /\ dpc = "given"
    /\ cat_runs = <<>>

CallCalculateSummaryStats ==
    /\ dpc \in {"diffed", "given"}
    /\ stats' = <<calculate_summary_stats(diffs)>>
    /\ dpc' = "summarized"
    /\ UNCHANGED <<left, right, diffs, cat_runs>>

(***************************************************************************)
(* categorize_differences                                                  *)
(***************************************************************************)
\* match diff.status { Match => "", OnlyLeft => .., OnlyRight => ..,
\*                     Different | Conflict => .. }
HighlightFor(status) ==
    CASE status = "Match" -> HighlightNone
      [] status = "OnlyLeft" -> HighlightOnlyLeft
      [] status = "OnlyRight" -> HighlightOnlyRight
      [] status \in {"Different", "Conflict"} -> HighlightDifferent

\* variant: the tag is set from status whether or not one is there
CategorizeOneOverwrite(diff) ==
    [diff EXCEPT !.highlight_class = <<HighlightFor(diff.status)>>]

\* variant: a missing tag is first filled with the empty tag, and an empty tag is
\* replaced by the tag of the status
CategorizeOneTwoStep(diff) ==
    IF diff.highlight_class = <<>>
    THEN [diff EXCEPT !.highlight_class = <<HighlightNone>>]
    ELSE IF diff.highlight_class = <<HighlightNone>>
    THEN [diff EXCEPT !.highlight_class = <<HighlightFor(diff.status)>>]
    ELSE diff

\* the closure of the map: if diff.highlight_class.is_none() { .. = Some(..) }; diff
CategorizeOne(diff) ==
    IF diff.highlight_class = <<>>
    THEN [diff EXCEPT !.highlight_class = <<HighlightFor(diff.status)>>]
    ELSE diff

categorize_differences(diff_results) ==
    [n \in DOMAIN diff_results |-> CategorizeOne(diff_results[n])]

\* The frontend invokes categorize_differences: first on the results it holds,
\* then once more on what the first call returned.
CallCategorizeDifferences ==
    /\ dpc \in {"diffed", "given", "categorized"}
    /\ cat_runs' = Append(cat_runs,
                          categorize_differences(IF cat_runs = <<>> THEN diffs
                                                 ELSE cat_runs[Len(cat_runs)]))
    /\ dpc' = IF dpc = "categorized" THEN "recategorized" ELSE "categorized"
    /\ UNCHANGED <<left, right, diffs, stats>>

(***************************************************************************)
(* The filesystem the scanner walks.                                       *)
(*                                                                         *)
(* A file name is a sequence of characters, a path the sequence of its     *)
(* segments below "/" (<<>> is "/"). Dirs are the directories that exist;  *)
(* an edge <<d, name, t>> says that directory d has an entry called name   *)
(* which is the directory t (directly or through a symbolic link, which    *)
(* is_dir follows), a regular file ("file"), or an entry whose DirEntry    *)
(* cannot be read ("err").                                                 *)
(***************************************************************************)
NameA == <<"a">>
NameB == <<"b">>
NameHidden == <<".", "h">>
NameProc == <<"p", "r", "o", "c">>
NameSys == <<"s", "y", "s">>
NameDev == <<"d", "e", "v">>
NameHome == <<"h", "o", "m", "e">>
NameFile == <<"f", ".", "t", "x", "t">>
NameBad == <<"e">>

Dirs == {"d0", "d1", "d2"}          \* d0 is the directory start_dir names

\* entries a drawn filesystem may or may not have; d2/a -> d0 closes a cycle
OptionalEdges ==
    { <<"d0", NameA, "d1">>, <<"d0", NameHidden, "d2">>, <<"d0", NameProc, "d2">>,
      <<"d1", NameB, "d2">>, <<"d2", NameA, "d0">> }
\* entries every drawn filesystem has: a regular file and an unreadable DirEntry
FixedEdges == { <<"d1", NameFile, "file">>, <<"d2", NameBad, "err">> }

(***************************************************************************)
(* serde_json::Value, as far as the program looks into it. A value is a    *)
(* record of one shape: kind, str (the text of a string) and members (the  *)
(* key/value members of an object, keys distinct).                         *)
(***************************************************************************)
JStr(s) == [kind |-> "string", str |-> s, members |-> <<>>]
JArr == [kind |-> "array", str |-> "", members |-> <<>>]
JObj(ms) == [kind |-> "object", str |-> "", members |-> ms]
Member(k, v) == [key |-> k, val |-> v]

\* Value::get(key): Some(member) for an object that has the key, None otherwise
json_get(v, k) ==
    IF v.kind = "object" /\ \E n \in DOMAIN v.members : v.members[n].key = k
    THEN <<v.members[CHOOSE n \in DOMAIN v.members : v.members[n].key = k].val>>
    ELSE <<>>

\* Value::as_object(): Some(map) for an object, None otherwise
as_object(v) == IF v.kind = "object" THEN <<v.members>> ELSE <<>>

\* A file as std::fs::read_to_string and serde_json::from_str see it: the read
\* fails, or it gives a text that is not JSON, or a text that is the JSON value.
Unreadable == [readable |-> FALSE, json |-> <<>>]
InvalidJson == [readable |-> TRUE, json |-> <<>>]
JsonText(v) == [readable |-> TRUE, json |-> <<v>>]

ServerA == JObj(<<Member("command", JStr("x"))>>)
ServerB == JObj(<<Member("command", JStr("y"))>>)
McpServers(ms) == JObj(<<Member("mcpServers", JObj(ms))>>)

\* texts a .mcp.json may hold
McpTexts ==
    { Unreadable, InvalidJson,
      JsonText(JObj(<<>>)),
      JsonText(JArr),
      JsonText(JObj(<<Member("mcpServers", JStr("none"))>>)),
      JsonText(McpServers(<<>>)),
      JsonText(McpServers(<<Member("s1", ServerA)>>)),
      JsonText(McpServers(<<Member("s1", ServerA), Member("s2", ServerB)>>)) }

NameSettings == <<"s", "e", "t", "t", "i", "n", "g", "s", ".", "j", "s", "o", "n">>
NameAgentMd == <<"a", ".", "m", "d">>
NameNotesTxt == <<"n", ".", "t", "x", "t">>
ExtMd == <<"m", "d">>

\* entries a .claude directory may hold besides settings.json: a regular file a.md,
\* a regular file n.txt, and an entry whose DirEntry cannot be read
ClaudeEntries ==
    { [name |-> NameAgentMd, kind |-> "file"],
      [name |-> NameNotesTxt, kind |-> "file"],
      [name |-> <<>>, kind |-> "err"] }

NameAgents == <<"a", "g", "e", "n", "t", "s">>

\* entries a .claude/agents directory may hold: regular files a.md and n.txt
AgentsEntries ==
    { [name |-> NameAgentMd, kind |-> "file"],
      [name |-> NameNotesTxt, kind |-> "file"] }

\* What check_if_project can find directly inside a directory. Each of .mcp.json,
\* .claude and .claude/settings.json is "absent", a regular "file" or a "dir"
\* (Path::exists and Path::is_file follow symbolic links); mcp_text and
\* settings_text are what reading the two files gives; claude_readable says whether
\* read_dir(.claude) succeeds and claude_entries is what it lists besides
\* settings.json and agents; agents says whether .claude/agents is a directory and
\* agents_entries is what that directory holds.
NoConfig ==
    [mcp |-> "absent", mcp_text |-> Unreadable,
     claude |-> "absent", claude_readable |-> TRUE, claude_entries |-> {},
     agents |-> "absent", agents_entries |-> {},
     settings |-> "absent", settings_text |-> Unreadable]
McpOnly ==
    [NoConfig EXCEPT !.mcp = "file", !.mcp_text = JsonText(McpServers(<<Member("s1", ServerA)>>))]
SettingsOnly ==
    [NoConfig EXCEPT !.claude = "dir", !.settings = "file", !.settings_text = JsonText(JObj(<<>>))]
BothConfigs ==
    [McpOnly EXCEPT !.claude = "dir", !.settings = "file", !.settings_text = JsonText(JObj(<<>>))]
ConfigOf == [d \in Dirs |->
    CASE d = "d0" -> BothConfigs [] d = "d1" -> McpOnly [] d = "d2" -> SettingsOnly]

Filesystems ==
    {[edges |-> E \cup FixedEdges,
      unreadable |-> U,
      contents |-> [d \in Dirs |-> IF d \in P THEN ConfigOf[d] ELSE NoConfig]] :
        E \in SUBSET OptionalEdges,
        U \in {{}} \cup {{d} : d \in Dirs},
        P \in SUBSET Dirs}

StartDirs == {<<>>, <<NameHome>>}

\* the entry names std::fs::read_dir yields for directory node d
EntryNames(f, d) == {e[2] : e \in {x \in f.edges : x[1] = d}}
\* what the entry called name of directory node d is
EntryTarget(f, d, name) == (CHOOSE e \in f.edges : e[1] = d /\ e[2] = name)[3]

RECURSIVE Walk(_, _, _)
\* the directory node reached from node d along the segments segs
Walk(f, d, segs) ==
    IF segs = <<>> THEN d ELSE Walk(f, EntryTarget(f, d, Head(segs)), Tail(segs))

\* the directory node a path under start denotes
NodeOf(f, start, path) == Walk(f, "d0", SubSeq(path, Len(start) + 1, Len(path)))

\* std::fs::read_dir(dir_path) returns Err (e.g. permission denied)
ReadDirFails(f, start, path) == NodeOf(f, start, path) \in f.unreadable

(***************************************************************************)
(* check_if_project and count_config_files                                 *)
(***************************************************************************)
\* dir.file_name().and_then(|n| n.to_str()).unwrap_or("unknown")
ProjectName(dir) ==
    IF dir = <<>> THEN <<"u", "n", "k", "n", "o", "w", "n">> ELSE dir[Len(dir)]

\* counts the two config paths that exist (Path::exists, whatever their kind)
count_config_files(content) ==
    (IF content.mcp # "absent" THEN 1 ELSE 0)
    + (IF content.settings # "absent" THEN 1 ELSE 0)

\* Result<usize, AppError>
OkCount(n) == [ok |-> TRUE, count |-> n]
ErrCount == [ok |-> FALSE, count |-> 0]

\* variant: a document whose mcpServers is missing or no object is an error
count_mcp_servers_strict(text) ==
    IF ~text.readable \/ text.json = <<>> THEN ErrCount
    ELSE LET servers == json_get(text.json[1], "mcpServers")
         IN  IF servers # <<>> /\ as_object(servers[1]) # <<>>
             THEN OkCount(Len(as_object(servers[1])[1]))
             ELSE ErrCount

\* read_to_string(..)??, serde_json::from_str(..)?, then the length of the object
\* under "mcpServers", 0 when there is none
count_mcp_servers(text) ==
    IF ~text.readable \/ text.json = <<>> THEN ErrCount
    ELSE LET servers == json_get(text.json[1], "mcpServers")
         IN  IF servers # <<>> /\ as_object(servers[1]) # <<>>
             THEN OkCount(Len(as_object(servers[1])[1]))
             ELSE OkCount(0)

\* Path::extension(): what follows the last '.' that is not the first character
Extension(name) ==
    LET dots == {n \in 2..Len(name) : name[n] = "."}
    IN  IF dots = {} THEN <<>> ELSE <<SubSeq(name, Max(dots) + 1, Len(name))>>

\* the entries read_dir lists for the .claude directory
ClaudeListing(content) ==
    content.claude_entries
    \cup (IF content.settings # "absent"
          THEN {[name |-> NameSettings, kind |-> content.settings]} ELSE {})
    \cup (IF content.agents # "absent"
          THEN {[name |-> NameAgents, kind |-> content.agents]} ELSE {})

\* counts the regular files with extension md directly inside the directory it is
\* given; a failed read_dir or a failed DirEntry is an error
count_sub_agents(readable, listing) ==
    IF ~readable \/ \E e \in listing : e.kind = "err" THEN ErrCount
    ELSE OkCount(Cardinality({e \in listing :
                                e.kind = "file" /\ Extension(e.name) = <<ExtMd>>}))

\* format!("{} servers", count), format!("{} agents", count)
FormatCount(count, unit) == <<count, unit>>

\* variant: the two presence tests use exists() without is_file()
check_if_project_exists(dir, content) ==
    LET has_mcp == content.mcp # "absent"
        has_claude_settings == content.settings # "absent"
    IN  IF ~has_mcp /\ ~has_claude_settings THEN <<>>
        ELSE <<[name |-> ProjectName(dir),
                path |-> dir,
                config_file_count |-> count_config_files(content),
                config_sources |-> [user |-> has_claude_settings,
                                    project |-> has_mcp,
                                    local |-> FALSE],
                mcp_servers |-> <<>>,
                sub_agents |-> <<>>]>>

\* Ok(None) is <<>>, Ok(Some(project)) is <<project>>. The fields id (a hash of the
\* path) and last_modified (the directory's mtime) are left out: nothing reads them.
check_if_project(dir, content) ==
    LET has_mcp == content.mcp = "file"
        has_claude_settings == content.settings = "file"
        mcp_count == count_mcp_servers(content.mcp_text)
        agent_count == count_sub_agents(content.claude_readable, ClaudeListing(content))
    IN  IF ~has_mcp /\ ~has_claude_settings THEN <<>>
        ELSE <<[name |-> ProjectName(dir),
                path |-> dir,
                config_file_count |-> count_config_files(content),
                config_sources |-> [user |-> has_claude_settings,
                                    project |-> has_mcp,
                                    local |-> FALSE],
                mcp_servers |-> IF has_mcp /\ mcp_count.ok
                                THEN << <<FormatCount(mcp_count.count, " servers")>> >>
                                ELSE <<>>,
                sub_agents |-> IF content.claude = "dir" /\ agent_count.ok
                               THEN << <<FormatCount(agent_count.count, " agents")>> >>
                               ELSE <<>>]>>

\* the directory contents check_if_project may meet
ProjContents ==
    {[mcp |-> m.kind, mcp_text |-> m.text,
      claude |-> c.kind, claude_readable |-> c.readable, claude_entries |-> c.entries,
      agents |-> c.agents.kind, agents_entries |-> c.agents.entries,
      settings |-> c.settings,
      settings_text |-> IF c.settings = "file" THEN JsonText(JObj(<<>>)) ELSE Unreadable] :
        m \in {[kind |-> "absent", text |-> Unreadable], [kind |-> "dir", text |-> Unreadable]}
               \cup {[kind |-> "file", text |-> t] : t \in McpTexts},
        c \in {[kind |-> k, readable |-> TRUE, entries |-> {}, settings |-> "absent",
                agents |-> [kind |-> "absent", entries |-> {}]] :
                   k \in {"absent", "file"}}
               \cup {[kind |-> "dir", readable |-> r, entries |-> E, settings |-> st,
                      agents |-> a] :
                       r \in BOOLEAN, E \in SUBSET ClaudeEntries,
                       st \in {"absent", "file", "dir"},
                       a \in {[kind |-> "absent", entries |-> {}]}
                             \cup {[kind |-> "dir", entries |-> A] :
                                     A \in SUBSET AgentsEntries}}}

ProjDirs == {<<>>, <<NameA>>, <<NameHome, NameB>>}

\* a caller about to call check_if_project(dir)
ProjInit ==
    /\ proj_dir \in ProjDirs
    /\ proj_content \in ProjContents
    /\ proj_result = <<>>
    /\ ppc = "start"

CallCheckIfProject ==
    /\ ppc = "start"
    /\ proj_result' = check_if_project(proj_dir, proj_content)
    /\ ppc' = "done"
    /\ UNCHANGED <<proj_dir, proj_content>>

(***************************************************************************)
(* compare_projects, extract_project_capabilities and the two per-file     *)
(* extractors. format!("mcp.{}", name) is the pair <<"mcp.", name>>, and a *)
(* fixed id such as "allowedTools" the one-element tuple of it.            *)
(***************************************************************************)
\* Result<Vec<Capability>, AppError>
OkCaps(caps) == [ok |-> TRUE, caps |-> caps]
ErrCaps == [ok |-> FALSE, caps |-> <<>>]

\* one capability per member of the object under "mcpServers", in the map's order
extract_mcp_capabilities(text) ==
    IF ~text.readable \/ text.json = <<>> THEN ErrCaps
    ELSE LET mcp_servers == json_get(text.json[1], "mcpServers")
         IN  IF mcp_servers # <<>> /\ as_object(mcp_servers[1]) # <<>>
             THEN LET servers_obj == as_object(mcp_servers[1])[1]
                  IN  OkCaps([n \in 1..Len(servers_obj) |->
                                [id |-> <<"mcp.", servers_obj[n].key>>,
                                 key |-> <<"mcpServers.", servers_obj[n].key>>,
                                 value |-> servers_obj[n].val,
                                 source |-> "project"]])
             ELSE OkCaps(<<>>)

\* the capability extract_settings_capabilities pushes for a top-level key it finds
SettingCaps(doc, k) ==
    IF json_get(doc, k) # <<>>
    THEN <<[id |-> <<k>>, key |-> <<k>>, value |-> json_get(doc, k)[1], source |-> "user"]>>
    ELSE <<>>

\* variant: every top-level key of the document gives a capability
extract_settings_capabilities_all_keys(text) ==
    IF ~text.readable \/ text.json = <<>> THEN ErrCaps
    ELSE LET ms == text.json[1].members
         IN  OkCaps([n \in DOMAIN ms |->
                       [id |-> <<ms[n].key>>, key |-> <<ms[n].key>>,
                        value |-> ms[n].val, source |-> "user"]])

extract_settings_capabilities(text) ==
    IF ~text.readable \/ text.json = <<>> THEN ErrCaps
    ELSE OkCaps(SettingCaps(text.json[1], "allowedTools")
                \o SettingCaps(text.json[1], "disallowedTools"))

\* what a path names: nothing ("missing"), something that is no directory ("file"),
\* or a directory ("dir") with its content
NoTarget == [kind |-> "missing", content |-> NoConfig]
FileTarget == [kind |-> "file", content |-> NoConfig]
DirTarget(c) == [kind |-> "dir", content |-> c]

\* variant: the path is not validated
extract_project_capabilities_unchecked(target) ==
    LET c == target.content
        mcp == extract_mcp_capabilities(c.mcp_text)
        settings == extract_settings_capabilities(c.settings_text)
    IN  OkCaps((IF c.mcp = "file" /\ mcp.ok THEN mcp.caps ELSE <<>>)
               \o (IF c.settings = "file" /\ settings.ok THEN settings.caps ELSE <<>>))

\* variant: the error of a per-file extractor is propagated
extract_project_capabilities_strict(target) ==
    LET c == target.content
        mcp == extract_mcp_capabilities(c.mcp_text)
        settings == extract_settings_capabilities(c.settings_text)
    IN  IF target.kind # "dir" THEN ErrCaps
        ELSE IF (c.mcp = "file" /\ ~mcp.ok) \/ (c.settings = "file" /\ ~settings.ok)
        THEN ErrCaps
        ELSE OkCaps((IF c.mcp = "file" THEN mcp.caps ELSE <<>>)
                    \o (IF c.settings = "file" THEN settings.caps ELSE <<>>))

\* Err unless the path is an existing directory; then the capabilities of .mcp.json
\* followed by those of .claude/settings.json, a file whose extractor fails (a
\* warning is printed) adding nothing
extract_project_capabilities(target) ==
    LET c == target.content
        mcp == extract_mcp_capabilities(c.mcp_text)
        settings == extract_settings_capabilities(c.settings_text)
    IN  IF target.kind # "dir" THEN ErrCaps
        ELSE OkCaps((IF c.mcp = "file" /\ mcp.ok THEN mcp.caps ELSE <<>>)
                    \o (IF c.settings = "file" /\ settings.ok THEN settings.caps ELSE <<>>))

\* texts a .claude/settings.json may hold
SettingsTexts ==
    { Unreadable, InvalidJson,
      JsonText(JObj(<<Member("allowedTools", JStr("t1"))>>)),
      JsonText(JObj(<<Member("allowedTools", JStr("t2")),
                      Member("model", JStr("m")),
                      Member("disallowedTools", JStr("t1"))>>)) }

\* texts of .mcp.json drawn for a comparison
CmpMcpTexts ==
    { Unreadable, InvalidJson,
      JsonText(JObj(<<>>)),
      JsonText(McpServers(<<Member("s1", ServerA)>>)),
      JsonText(McpServers(<<Member("s1", ServerB), Member("s2", ServerB)>>)) }

\* the project directories drawn for a comparison
CmpContents ==
    {[NoConfig EXCEPT !.mcp = m.kind, !.mcp_text = m.text,
                      !.claude = IF st.kind = "file" THEN "dir" ELSE "absent",
                      !.settings = st.kind, !.settings_text = st.text] :
        m \in {[kind |-> "absent", text |-> Unreadable], [kind |-> "dir", text |-> Unreadable]}
               \cup {[kind |-> "file", text |-> t] : t \in CmpMcpTexts},
        st \in {[kind |-> "absent", text |-> Unreadable]}
                \cup {[kind |-> "file", text |-> t] : t \in SettingsTexts}}

CmpTargets == {NoTarget, FileTarget} \cup {DirTarget(c) : c \in CmpContents}

\* the frontend is about to invoke compare_projects(left_path, right_path)
CompareInit ==
    /\ cmp_in \in [left : CmpTargets, right : CmpTargets]
    /\ cmp_examined = <<>>
    /\ cmp_result = "none"
    /\ cpc = "start"
    /\ left = <<>>
    /\ right = <<>>
    /\ diffs = <<>>
    /\ stats = <<>>
    /\ dpc = "idle"
    /\ cat_runs = <<>>

\* let left_capabilities = extract_project_capabilities(&left_path).await?
CompareLeft ==
    /\ cpc = "start"
    /\ cmp_examined' = Append(cmp_examined, "left")
    /\ LET r == extract_project_capabilities(cmp_in.left)
       IN  IF r.ok
           THEN left' = r.caps /\ cpc' = "left_done" /\ UNCHANGED cmp_result
           ELSE cmp_result' = "Err" /\ cpc' = "done" /\ UNCHANGED left
    /\ UNCHANGED <<cmp_in, right, diffs, stats, dpc, cat_runs>>

\* let right_capabilities = extract_project_capabilities(&right_path).await?
CompareRight ==
    /\ cpc = "left_done"
    /\ cmp_examined' = Append(cmp_examined, "right")
    /\ LET r == extract_project_capabilities(cmp_in.right)
       IN  IF r.ok
           THEN right' = r.caps /\ cpc' = "right_done" /\ UNCHANGED cmp_result
           ELSE cmp_result' = "Err" /\ cpc' = "done" /\ UNCHANGED right
    /\ UNCHANGED <<cmp_in, left, diffs, stats, dpc, cat_runs>>

\* calculate_diff(left_capabilities, right_capabilities).await
CompareDiff ==
    /\ cpc = "right_done"
    /\ diffs' = calculate_diff(left, right)
    /\ cmp_result' = "Ok"
    /\ cpc' = "done"
    /\ UNCHANGED <<cmp_in, cmp_examined, left, right, stats, dpc, cat_runs>>

(***************************************************************************)
(* scan_directory                                                          *)
(***************************************************************************)
\* current_dir == PathBuf::from("/proc") || ... "/sys" || ... "/dev"
IsSystemDir(dir) == dir \in {<<NameProc>>, <<NameSys>>, <<NameDev>>}

\* name.to_string_lossy().starts_with('.')
IsHidden(name) == Len(name) > 0 /\ name[1] = "."

\* variant: the test of include_hidden lost its negation
SkipHiddenInverted(cfg, name) == cfg.include_hidden /\ IsHidden(name)

\* !config.include_hidden && path.file_name().map_or(false, ...)
SkipHidden(cfg, name) == ~cfg.include_hidden /\ IsHidden(name)

\* variant: the depth is passed on without the increment
NextDepthSame(current_depth) == current_depth

\* let next_depth = current_depth + 1
NextDepth(current_depth) == current_depth + 1

\* if next_depth < config.max_depth { dir_stack.push(..) }
ShouldPush(cfg, next_depth) == next_depth < cfg.max_depth

Top(stack) == stack[Len(stack)]
Pop(stack) == SubSeq(stack, 1, Len(stack) - 1)

DiffIdle ==
    /\ left = <<>>
    /\ right = <<>>
    /\ diffs = <<>>
    /\ stats = <<>>
    /\ dpc = "idle"
    /\ cat_runs = <<>>

ScanIdle ==
    /\ fs = [edges |-> {}, unreadable |-> {}, contents |-> [d \in Dirs |-> NoConfig]]
    /\ start_dir = <<>>
    /\ config = [max_depth |-> 1, include_hidden |-> FALSE]
    /\ dir_stack = <<>>
    /\ projects = <<>>
    /\ current = <<>>
    /\ entries = {}
    /\ expanded = <<>>
    /\ spc = "idle"
    /\ scan_result = "none"

EntryIdle ==
    /\ depth_arg = 0
    /\ home = <<>>

ProjIdle ==
    /\ proj_dir = <<>>
    /\ proj_content = NoConfig
    /\ proj_result = <<>>
    /\ ppc = "idle"

CmpIdle ==
    /\ cmp_in = <<>>
    /\ cmp_examined = <<>>
    /\ cmp_result = "none"
    /\ cpc = "idle"

ConcIdle ==
    /\ conc_fs = [edges |-> {}, unreadable |-> {}, contents |-> [d \in Dirs |-> NoConfig]]
    /\ scans = <<>>

SetupIdle ==
    /\ env = <<>>
    /\ watched = {}
    /\ watcher_state = FALSE
    /\ watch_result = "none"
    /\ logger_result = "none"
    /\ setup_pc = "idle"
    /\ setup_result = "none"
    /\ watchers = <<>>
    /\ held = 0
    /\ handled = <<>>
    /\ emitted = <<>>

\* the variables a specification of one part leaves alone
scanFrame == <<diffVars, entryVars, projVars, cmpVars, concVars, setupVars>>
diffFrame == <<scanVars, entryVars, projVars, cmpVars, concVars, setupVars>>

\* scan_directory(start_dir, config, 0) up to the first test of the while loop
ScanInit ==
    /\ fs \in Filesystems
    /\ start_dir \in StartDirs
    /\ config \in [max_depth : 1..MaxDepth, include_hidden : BOOLEAN]
    /\ dir_stack = <<[dir |-> start_dir, depth |-> 0]>>
    /\ projects = <<>>
    /\ current = <<>>
    /\ entries = {}
    /\ expanded = <<>>
    /\ spc = "loop"
    /\ scan_result = "none"

\* while let Some((current_dir, current_depth)) = dir_stack.pop(): the part of one
\* iteration before the for loop (lines 88-108). A failed read_dir arrives as
\* Ok(Err(e)) from the blocking task, and `entries.map_err(..)?` returns it from
\* scan_directory; the arm `Err(_) => continue` is taken only for a JoinError (the
\* blocking task panicked or was cancelled), which read_dir does not cause.
ScanPop ==
    /\ spc = "loop"
    /\ dir_stack # <<>>
    /\ LET top == Top(dir_stack) IN
        /\ dir_stack' = Pop(dir_stack)
        /\ IF IsSystemDir(top.dir) \/ top.depth >= config.max_depth
           THEN UNCHANGED <<current, entries, expanded, spc, scan_result>>
           ELSE IF ReadDirFails(fs, start_dir, top.dir)
           THEN /\ spc' = "returned"
                /\ scan_result' = "Err"
                /\ UNCHANGED <<current, entries, expanded>>
           ELSE /\ entries' = EntryNames(fs, NodeOf(fs, start_dir, top.dir))
                /\ current' = IF entries' = {} THEN <<>> ELSE <<top>>
                /\ expanded' = Append(expanded, top)
                /\ spc' = IF entries' = {} THEN "loop" ELSE "iter"
                /\ UNCHANGED scan_result
    /\ UNCHANGED <<fs, start_dir, config, projects>>

\* one pass of `for entry in entries` (lines 110-137); read_dir yields the entries
\* in an order of the operating system's choosing
ScanEntry ==
    /\ spc = "iter"
    /\ \E name \in entries :
        LET current_dir == current[1].dir
            current_depth == current[1].depth
            target == EntryTarget(fs, NodeOf(fs, start_dir, current_dir), name)
            path == Append(current_dir, name)
            next_depth == NextDepth(current_depth)
            visited == target # "err" /\ ~SkipHidden(config, name) /\ target \in Dirs
        IN  /\ projects' = IF visited
                           THEN projects \o check_if_project(path, fs.contents[target])
                           ELSE projects
            /\ dir_stack' = IF visited /\ ShouldPush(config, next_depth)
                            THEN Append(dir_stack, [dir |-> path, depth |-> next_depth])
                            ELSE dir_stack
            /\ entries' = entries \ {name}
            /\ spc' = IF entries' = {} THEN "loop" ELSE "iter"
            /\ current' = IF entries' = {} THEN <<>> ELSE current
    /\ UNCHANGED <<fs, start_dir, config, expanded, scan_result>>

\* the while loop ends on an empty stack: Ok(projects)
ScanReturn ==
    /\ spc = "loop"
    /\ dir_stack = <<>>
    /\ spc' = "returned"
    /\ scan_result' = "Ok"
    /\ UNCHANGED <<fs, start_dir, config, dir_stack, projects, current, entries, expanded>>

(***************************************************************************)
(* scan_projects and scan_projects_with_config                             *)
(***************************************************************************)
DefaultDepth == 3    \* max_depth used when depth is 0
DepthCap == 5        \* largest max_depth a request can get

\* a very large depth argument (u32 goes further still; only comparisons are made)
LargeDepth == (2^30 - 1) * 2 + 1

RequestedDepths == 0..MaxRequest \cup {LargeDepth}

\* variant: the test for 0 is missing
ScanProjectsMaxDepthNoDefault(depth) ==
    IF depth > DepthCap THEN DepthCap ELSE depth

\* let max_depth = if depth == 0 { 3 } else if depth > 5 { 5 } else { depth }
ScanProjectsMaxDepth(depth) ==
    IF depth = 0 THEN DefaultDepth
    ELSE IF depth > DepthCap THEN DepthCap
    ELSE depth

\* the filesystems scan_projects is run over: every directory holds its config
\* files, and d2 may be unreadable
EntryFilesystems ==
    {f \in Filesystems : f.contents = ConfigOf /\ f.unreadable \subseteq {"d2"}}

\* the frontend is about to invoke scan_projects(depth)
EntryInit ==
    /\ depth_arg \in RequestedDepths
    /\ home \in {<<>>, <<<<NameHome>>>>}
    /\ fs \in EntryFilesystems
    /\ start_dir = <<>>
    /\ config = [max_depth |-> 1, include_hidden |-> FALSE]
    /\ dir_stack = <<>>
    /\ projects = <<>>
    /\ current = <<>>
    /\ entries = {}
    /\ expanded = <<>>
    /\ spc = "called"
    /\ scan_result = "none"

\* scan_projects builds the ScanConfig, scan_projects_with_config resolves the home
\* directory (an error when there is none) and calls scan_directory(&home_dir, &config, 0)
ScanProjects ==
    /\ spc = "called"
    /\ config' = [max_depth |-> ScanProjectsMaxDepth(depth_arg), include_hidden |-> FALSE]
    /\ IF home = <<>>
       THEN /\ spc' = "returned"
            /\ scan_result' = "Err"
            /\ UNCHANGED <<start_dir, dir_stack>>
       ELSE /\ start_dir' = home[1]
            /\ dir_stack' = <<[dir |-> home[1], depth |-> 0]>>
            /\ spc' = "loop"
            /\ UNCHANGED scan_result
    /\ UNCHANGED <<fs, projects, current, entries, expanded, entryVars>>

ScanNext ==
    \/ ScanPop /\ UNCHANGED scanFrame
    \/ ScanEntry /\ UNCHANGED scanFrame
    \/ ScanReturn /\ UNCHANGED scanFrame

Init == ScanInit /\ DiffIdle /\ EntryIdle /\ ProjIdle /\ CmpIdle /\ ConcIdle /\ SetupIdle
Next == ScanNext
Spec == Init /\ [][Next]_vars

\* the scan runs on a task of its own and is never starved: it takes its next step
FairSpec == Spec /\ WF_vars(Next)

DiffNext ==
    \/ CallCalculateDiff /\ UNCHANGED diffFrame
    \/ CallCalculateSummaryStats /\ UNCHANGED diffFrame

DiffSpecInit ==
    DiffInit /\ ScanIdle /\ EntryIdle /\ ProjIdle /\ CmpIdle /\ ConcIdle /\ SetupIdle
DiffSpec == DiffSpecInit /\ [][DiffNext]_vars

(***************************************************************************)
(* Two calls of scan_directory in flight at once (two invocations of       *)
(* list_projects / scan_projects on the async runtime). Each call has its  *)
(* own arguments and its own locals dir_stack, projects and loop position; *)
(* the only thing the calls share is the filesystem they read. A step of   *)
(* one call is the code between two of its await points or loop heads.     *)
(***************************************************************************)
ScanIds == {1, 2}

\* variant: the calls push into one accumulator they share
AccumulateShared(ss, i, found) ==
    [j \in DOMAIN ss |-> [ss[j] EXCEPT !.projects = @ \o found]]

\* projects.push(project) on the accumulator local to call i
Accumulate(ss, i, found) == [ss EXCEPT ![i].projects = @ \o found]

\* the other call is in the middle of its for loop
OtherInLoop(i) == \E j \in ScanIds \ {i} : scans[j].spc = "iter"

NewScan(start, cfg) ==
    [start_dir |-> start, config |-> cfg,
     dir_stack |-> <<[dir |-> start, depth |-> 0]>>,
     projects |-> <<>>, current |-> <<>>, entries |-> {},
     spc |-> "loop", scan_result |-> "none", overlapped |-> FALSE]

\* the filesystems the two calls run over: /a and /a/b are there, the hidden
\* entry, /proc and the cycle may be, and d2 may be unreadable
ConcFilesystems ==
    {f \in EntryFilesystems :
        {<<"d0", NameA, "d1">>, <<"d1", NameB, "d2">>} \subseteq f.edges}

ConcInit ==
    /\ conc_fs \in ConcFilesystems
    /\ \E d \in 1..MaxDepth, h \in BOOLEAN :
          scans = <<NewScan(<<>>, [max_depth |-> d, include_hidden |-> FALSE]),
                    NewScan(<<NameHome>>, [max_depth |-> 2, include_hidden |-> h])>>

\* lines 88-108 for call i
ConcPop(i) ==
    LET s == scans[i] IN
    /\ s.spc = "loop"
    /\ s.dir_stack # <<>>
    /\ LET top == Top(s.dir_stack)
           popped == [s EXCEPT !.dir_stack = Pop(s.dir_stack),
                               !.overlapped = @ \/ OtherInLoop(i)]
           names == EntryNames(conc_fs, NodeOf(conc_fs, s.start_dir, top.dir))
       IN  scans' = [scans EXCEPT ![i] =
               IF IsSystemDir(top.dir) \/ top.depth >= s.config.max_depth
               THEN popped
               ELSE IF ReadDirFails(conc_fs, s.start_dir, top.dir)
               THEN [popped EXCEPT !.spc = "returned", !.scan_result = "Err"]
               ELSE [popped EXCEPT !.entries = names,
                                   !.current = IF names = {} THEN <<>> ELSE <<top>>,
                                   !.spc = IF names = {} THEN "loop" ELSE "iter"]]
    /\ UNCHANGED conc_fs

\* lines 110-137 for call i
ConcEntry(i) ==
    LET s == scans[i] IN
    /\ s.spc = "iter"
    /\ \E name \in s.entries :
        LET current_dir == s.current[1].dir
            current_depth == s.current[1].depth
            target == EntryTarget(conc_fs, NodeOf(conc_fs, s.start_dir, current_dir), name)
            path == Append(current_dir, name)
            next_depth == NextDepth(current_depth)
            visited == target # "err" /\ ~SkipHidden(s.config, name) /\ target \in Dirs
            rest == s.entries \ {name}
            stepped ==
                [s EXCEPT !.dir_stack = IF visited /\ ShouldPush(s.config, next_depth)
                                        THEN Append(@, [dir |-> path, depth |-> next_depth])
                                        ELSE @,
                          !.entries = rest,
                          !.spc = IF rest = {} THEN "loop" ELSE "iter",
                          !.current = IF rest = {} THEN <<>> ELSE @,
                          !.overlapped = @ \/ OtherInLoop(i)]
        IN  scans' = Accumulate([scans EXCEPT ![i] = stepped], i,
                                IF visited
                                THEN check_if_project(path, conc_fs.contents[target])
                                ELSE <<>>)
    /\ UNCHANGED conc_fs

\* lines 138-140 for call i
ConcReturn(i) ==
    /\ scans[i].spc = "loop"
    /\ scans[i].dir_stack = <<>>
    /\ scans' = [scans EXCEPT ![i].spc = "returned", ![i].scan_result = "Ok"]
    /\ UNCHANGED conc_fs

concFrame == <<diffVars, scanVars, entryVars, projVars, cmpVars, setupVars>>

ConcNext ==
    \/ \E i \in ScanIds : ConcPop(i) /\ UNCHANGED concFrame
    \/ \E i \in ScanIds : ConcEntry(i) /\ UNCHANGED concFrame
    \/ \E i \in ScanIds : ConcReturn(i) /\ UNCHANGED concFrame

ConcSpecInit ==
    ConcInit /\ DiffIdle /\ ScanIdle /\ EntryIdle /\ ProjIdle /\ CmpIdle /\ SetupIdle
ConcSpec == ConcSpecInit /\ [][ConcNext]_vars

(***************************************************************************)
(* Application startup: the setup closure of lib.rs, with                  *)
(* config::watcher::watch_config_files and init_error_logger.              *)
(***************************************************************************)
\* the paths watch_config_files registers when they exist, in the order of the code
HomeWatchPaths == <<"~/.claude.json", "~/.claude/settings.json", "~/.claude/agents">>
CwdWatchPaths == <<"./.mcp.json", "./.claude/agents">>
WatchPaths == Range(HomeWatchPaths) \cup Range(CwdWatchPaths)

\* What the operating system answers during startup: whether new_debouncer
\* succeeds, whether dirs::home_dir() and std::env::current_dir() give a directory,
\* for each path whether it is "absent" or exists and watcher.watch() on it gives
\* "ok" or "fail", and whether create_dir_all of the log directory succeeds.
Environments ==
    [debouncer_ok : BOOLEAN, home_dir : BOOLEAN, current_dir : BOOLEAN,
     paths : [WatchPaths -> {"absent", "ok", "fail"}], log_dir_ok : BOOLEAN]

\* the paths watch_config_files looks at, in order
WatchCandidates(e) ==
    (IF e.home_dir THEN HomeWatchPaths ELSE <<>>)
    \o (IF e.current_dir THEN CwdWatchPaths ELSE <<>>)

NameClaude == <<".", "c", "l", "a", "u", "d", "e">>
NameClaudeJson == <<".", "c", "l", "a", "u", "d", "e", ".", "j", "s", "o", "n">>
NameMcpJson == <<".", "m", "c", "p", ".", "j", "s", "o", "n">>

\* dirs::home_dir() and std::env::current_dir(): /home and the project /home/a
HomePath == <<NameHome>>
CwdPath == <<NameHome, NameA>>

\* the path each watch() call is given and its RecursiveMode
WatchTarget(w) ==
    CASE w = "~/.claude.json" ->
           [path |-> HomePath \o <<NameClaudeJson>>, recursive |-> FALSE]
      [] w = "~/.claude/settings.json" ->
           [path |-> HomePath \o <<NameClaude, NameSettings>>, recursive |-> FALSE]
      [] w = "~/.claude/agents" ->
           [path |-> HomePath \o <<NameClaude, NameAgents>>, recursive |-> TRUE]
      [] w = "./.mcp.json" ->
           [path |-> CwdPath \o <<NameMcpJson>>, recursive |-> FALSE]
      [] w = "./.claude/agents" ->
           [path |-> CwdPath \o <<NameClaude, NameAgents>>, recursive |-> TRUE]

\* app.manage(WatcherState { .. }): managed state holds one value per type; when a
\* WatcherState is already managed the state is left as it is and the value
\* passed, with its debouncer, is dropped. holder is the watcher held so far (0 for
\* none), i the watcher whose debouncer is passed.
manage(holder, i) == IF holder # 0 THEN holder ELSE i

\* watch_config_files: Err when new_debouncer fails or a watch() of an existing
\* path fails (`?`); the debouncer, a local, is dropped then and nothing stays
\* watched. Otherwise the debouncer is stored in managed state and Ok is returned.
watch_config_files(e) ==
    LET cand == WatchCandidates(e)
    IN  IF ~e.debouncer_ok \/ \E n \in DOMAIN cand : e.paths[cand[n]] = "fail"
        THEN [result |-> "Err", watched |-> {}, managed |-> FALSE]
        ELSE [result |-> "Ok",
              watched |-> {cand[n] : n \in {m \in DOMAIN cand : e.paths[cand[m]] = "ok"}},
              managed |-> TRUE]

\* init_error_logger: lock the logger (nobody else holds or poisoned it at startup)
\* and create the log directory
init_error_logger(e) == IF e.log_dir_ok THEN "Ok" ELSE "Err"

\* variant: the closure returns the watcher's error
AfterWatchFatal(result) ==
    IF result = "Err" THEN [pc |-> "done", result |-> "Err"]
    ELSE [pc |-> "watched", result |-> "none"]

\* if let Err(e) = watch_config_files(..) { eprintln!(..) } else { println!(..) }:
\* either way the closure goes on
AfterWatch(result) == [pc |-> "watched", result |-> "none"]

SetupInit ==
    /\ env \in Environments
    /\ watched = {}
    /\ watcher_state = FALSE
    /\ watch_result = "none"
    /\ logger_result = "none"
    /\ setup_pc = "start"
    /\ setup_result = "none"
    /\ watchers = <<>>
    /\ held = 0
    /\ handled = <<>>
    /\ emitted = <<>>

\* lib.rs lines 33-41
SetupWatch ==
    /\ setup_pc = "start"
    /\ LET r == watch_config_files(env)
       IN  /\ watch_result' = r.result
           /\ watched' = r.watched
           /\ watcher_state' = r.managed
           /\ watchers' = Append(watchers, [kind |-> "config", result |-> r.result,
                                            roots |-> {WatchTarget(w) : w \in r.watched}])
           /\ held' = IF r.managed THEN manage(held, Len(watchers) + 1) ELSE held
           /\ setup_pc' = AfterWatch(r.result).pc
           /\ setup_result' = AfterWatch(r.result).result
    /\ UNCHANGED <<env, logger_result, handled, emitted>>

\* lib.rs lines 43-49
SetupLogger ==
    /\ setup_pc = "watched"
    /\ logger_result' = init_error_logger(env)
    /\ setup_pc' = "logged"
    /\ UNCHANGED <<env, watched, watcher_state, watch_result, setup_result, watchVars>>

\* lib.rs line 51
SetupReturn ==
    /\ setup_pc = "logged"
    /\ setup_result' = "Ok"
    /\ setup_pc' = "done"
    /\ UNCHANGED <<env, watched, watcher_state, watch_result, logger_result, watchVars>>

setupFrame == <<diffVars, scanVars, entryVars, projVars, cmpVars, concVars>>

SetupNext ==
    \/ SetupWatch /\ UNCHANGED setupFrame
    \/ SetupLogger /\ UNCHANGED setupFrame
    \/ SetupReturn /\ UNCHANGED setupFrame

SetupSpecInit ==
    SetupInit /\ DiffIdle /\ ScanIdle /\ EntryIdle /\ ProjIdle /\ CmpIdle /\ ConcIdle
SetupSpec == SetupSpecInit /\ [][SetupNext]_vars

(***************************************************************************)
(* The running watchers: the watch_projects command, and the callbacks of  *)
(* the two debouncers (handle_file_event with is_config_file in            *)
(* config/watcher.rs, the closure of watch_projects).                      *)
(***************************************************************************)
\* watch_projects: Err when new_debouncer fails or the recursive watch of the home
\* directory fails (`?`, the local debouncer is dropped); otherwise the debouncer
\* is handed to app.manage and Ok is returned whatever manage answers
watch_projects(e, debouncer_ok, watch_ok) ==
    IF ~debouncer_ok \/ (e.home_dir /\ ~watch_ok)
    THEN [result |-> "Err", roots |-> {}, managed |-> FALSE]
    ELSE [result |-> "Ok",
          roots |-> IF e.home_dir THEN {[path |-> HomePath, recursive |-> TRUE]} ELSE {},
          managed |-> TRUE]

\* str::ends_with
EndsWith(name, suffix) ==
    /\ Len(name) >= Len(suffix)
    /\ SubSeq(name, Len(name) - Len(suffix) + 1, Len(name)) = suffix

\* Path::file_name() of the path, of its parent and of its grandparent: None for "/"
FileNameOf(path, up) == IF Len(path) > up THEN <<path[Len(path) - up]>> ELSE <<>>

is_config_file(path) ==
    LET file_name == FileNameOf(path, 0)
        parent_name == FileNameOf(path, 1)
        gp_name == FileNameOf(path, 2)
    IN  IF file_name = <<>> THEN FALSE
        ELSE \/ file_name[1] = NameClaudeJson
             \/ file_name[1] = NameMcpJson
             \/ file_name[1] = NameSettings /\ parent_name = <<NameClaude>>
             \/ /\ EndsWith(file_name[1], <<".", "m", "d">>)
                /\ parent_name = <<NameAgents>>
                /\ gp_name = <<NameClaude>>

\* handle_file_event: what it emits for a debounced event whose path exists or not
handle_file_event(path, exists) ==
    IF is_config_file(path)
    THEN <<[event |-> "config-changed", path |-> path,
            change_type |-> IF exists THEN "modify" ELSE "delete"]>>
    ELSE <<>>

\* the closure of watch_projects: what it emits for a debounced event
project_updated(path) ==
    <<[event |-> "project-updated", path |-> path, change_type |-> "change"]>>

\* the callback of a watcher of the given kind
Callback(kind, path, exists) ==
    IF kind = "config" THEN handle_file_event(path, exists) ELSE project_updated(path)

IsPrefix(p, q) == Len(p) <= Len(q) /\ SubSeq(q, 1, Len(p)) = p

\* whether a watcher with these watch roots is notified of a change at the path
Watches(roots, path) ==
    \E t \in roots : t.path = path \/ (t.recursive /\ IsPrefix(t.path, path))

\* the paths at which the filesystem changes
EventPaths ==
    { HomePath \o <<NameClaudeJson>>,
      HomePath \o <<NameClaude, NameSettings>>,
      HomePath \o <<NameClaude, NameAgents>>,
      HomePath \o <<NameClaude, NameAgents, NameAgentMd>>,
      HomePath \o <<NameClaude, NameAgents, NameNotesTxt>>,
      CwdPath \o <<NameMcpJson>>,
      CwdPath \o <<NameSettings>>,
      HomePath \o <<NameNotesTxt>> }

\* startup environments: every path to watch exists and can be watched, or none
\* exists, or watch() fails on them
WatchEnvironments ==
    {e \in Environments :
        /\ e.log_dir_ok
        /\ \E k \in {"absent", "ok", "fail"} : \A w \in WatchPaths : e.paths[w] = k}

WatchInit ==
    /\ env \in WatchEnvironments
    /\ watched = {}
    /\ watcher_state = FALSE
    /\ watch_result = "none"
    /\ logger_result = "none"
    /\ setup_pc = "start"
    /\ setup_result = "none"
    /\ watchers = <<>>
    /\ held = 0
    /\ handled = <<>>
    /\ emitted = <<>>

\* the frontend invokes the watch_projects command
WatchProjects ==
    /\ setup_pc = "done"
    /\ Len(watchers) < 1 + MaxWatchCalls
    /\ \E debouncer_ok \in BOOLEAN, watch_ok \in BOOLEAN :
          LET r == watch_projects(env, debouncer_ok, watch_ok)
          IN  /\ watchers' = Append(watchers, [kind |-> "projects", result |-> r.result,
                                               roots |-> r.roots])
              /\ held' = IF r.managed THEN manage(held, Len(watchers) + 1) ELSE held
              /\ watcher_state' = (watcher_state \/ r.managed)
    /\ UNCHANGED <<env, watched, watch_result, logger_result, setup_pc, setup_result,
                   handled, emitted>>

\* the debouncer held in managed state reports a change at a path it watches and
\* its callback runs; a dropped debouncer reports nothing
HandleEvent ==
    /\ held # 0
    /\ Len(handled) < MaxEvents
    /\ \E path \in EventPaths, exists \in BOOLEAN :
          /\ Watches(watchers[held].roots, path)
          /\ handled' = Append(handled, [watcher |-> held, path |-> path,
                                         exists |-> exists])
          /\ emitted' = emitted \o Callback(watchers[held].kind, path, exists)
    /\ UNCHANGED <<env, watched, watcher_state, watch_result, logger_result, setup_pc,
                   setup_result, watchers, held>>

WatchNext ==
    \/ SetupWatch /\ UNCHANGED setupFrame
    \/ SetupLogger /\ UNCHANGED setupFrame
    \/ SetupReturn /\ UNCHANGED setupFrame
    \/ WatchProjects /\ UNCHANGED setupFrame
    \/ HandleEvent /\ UNCHANGED setupFrame

WatchSpecInit ==
    WatchInit /\ DiffIdle /\ ScanIdle /\ EntryIdle /\ ProjIdle /\ CmpIdle /\ ConcIdle
WatchSpec == WatchSpecInit /\ [][WatchNext]_vars

EntryNext ==
    \/ ScanProjects /\ UNCHANGED <<diffVars, projVars, cmpVars, concVars, setupVars>>
    \/ ScanNext

EntrySpecInit ==
    EntryInit /\ DiffIdle /\ ProjIdle /\ CmpIdle /\ ConcIdle /\ SetupIdle
EntrySpec == EntrySpecInit /\ [][EntryNext]_vars

cmpFrame == <<scanVars, entryVars, projVars, concVars, setupVars>>

CompareNext ==
    \/ CompareLeft /\ UNCHANGED cmpFrame
    \/ CompareRight /\ UNCHANGED cmpFrame
    \/ CompareDiff /\ UNCHANGED cmpFrame

CompareSpecInit ==
    CompareInit /\ ScanIdle /\ EntryIdle /\ ProjIdle /\ ConcIdle /\ SetupIdle
CompareSpec == CompareSpecInit /\ [][CompareNext]_vars

projFrame == <<diffVars, scanVars, entryVars, cmpVars, concVars, setupVars>>

ProjectNext == CallCheckIfProject /\ UNCHANGED projFrame

ProjectSpecInit ==
    ProjInit /\ DiffIdle /\ ScanIdle /\ EntryIdle /\ CmpIdle /\ ConcIdle /\ SetupIdle
ProjectSpec == ProjectSpecInit /\ [][ProjectNext]_vars

\* categorization of calculate_diff outputs and of results built by the frontend
CategorizeInit == DiffInit \/ ResultsInit

CategorizeNext ==
    \/ CallCalculateDiff /\ UNCHANGED diffFrame
    \/ CallCategorizeDifferences /\ UNCHANGED diffFrame

CategorizeSpecInit ==
    CategorizeInit /\ ScanIdle /\ EntryIdle /\ ProjIdle /\ CmpIdle /\ ConcIdle /\ SetupIdle
CategorizeSpec == CategorizeSpecInit /\ [][CategorizeNext]_vars

ResultsNext == CallCalculateSummaryStats /\ UNCHANGED diffFrame

ResultsSpecInit ==
    ResultsInit /\ ScanIdle /\ EntryIdle /\ ProjIdle /\ CmpIdle /\ ConcIdle /\ SetupIdle
ResultsSpec == ResultsSpecInit /\ [][ResultsNext]_vars

(***************************************************************************)
(* Properties of the diff engine (checked under DiffSpec).                 *)
(***************************************************************************)
Diffed == dpc \in {"diffed", "summarized"}

\* number of items of a sequence of capabilities that carry the id
CapCount(caps, id) == Cardinality({n \in DOMAIN caps : caps[n].id = id})
\* number of results of a DiffResult sequence that carry the id
ResultCount(ds, id) == Cardinality({n \in DOMAIN ds : ds[n].capability_id = id})
\* ids that have a result of the given status
StatusIds(ds, st) == {ds[n].capability_id : n \in {m \in DOMAIN ds : ds[m].status = st}}
StatusCount(ds, st) == Cardinality({n \in DOMAIN ds : ds[n].status = st})
NoDuplicateIds(caps) == \A m, n \in DOMAIN caps : caps[m].id = caps[n].id => m = n
\* items that share an id carry the same value
SameIdSameValue(caps) ==
    \A m, n \in DOMAIN caps : caps[m].id = caps[n].id => caps[m].value = caps[n].value

\* C1 (as stated): calculate_diff(L, R) returns exactly one DiffResult per distinct
\* id in the union of L's and R's ids, also when an id is duplicated within a side.
C1_OnePerDistinctId ==
    Diffed =>
        /\ \A id \in IdsOf(left) \cup IdsOf(right) : ResultCount(diffs, id) = 1
        /\ Len(diffs) = Cardinality(IdsOf(left) \cup IdsOf(right))

\* C1 (amended): the ids of the results are exactly the union of L's and R's ids;
\* an id that occurs in L has one result per occurrence in L, an id that occurs only
\* in R has one result per occurrence in R; hence exactly one result per id of the
\* union whenever no id is duplicated within a side.
C1_OnePerItem ==
    Diffed =>
        /\ {diffs[n].capability_id : n \in DOMAIN diffs} = IdsOf(left) \cup IdsOf(right)
        /\ \A id \in CapIds :
              ResultCount(diffs, id) =
                  IF id \in IdsOf(left) THEN CapCount(left, id) ELSE CapCount(right, id)
        /\ (NoDuplicateIds(left) /\ NoDuplicateIds(right)) =>
              /\ \A id \in IdsOf(left) \cup IdsOf(right) : ResultCount(diffs, id) = 1
              /\ Len(diffs) = Cardinality(IdsOf(left) \cup IdsOf(right))

\* C1 witness: a diff over a left side that repeats an id and a right side that
\* holds an id the left side lacks.
C1_Witness ==
    /\ Diffed
    /\ Len(left) = 2 /\ left[1].id = left[2].id
    /\ \E n \in DOMAIN right : right[n].id \notin IdsOf(left)
    /\ Len(diffs) = 3

\* C2 (as stated): calculate_diff(L, L) contains only Match results and its summary
\* has total_differences = 0, for every L.
C2_SelfDiffAllMatch ==
    (dpc = "summarized" /\ left = right) =>
        /\ \A n \in DOMAIN diffs : diffs[n].status = "Match"
        /\ stats[1].total_differences = 0

\* C2 (amended): calculate_diff(L, L) contains only Match results, and its summary
\* has total_differences = 0, exactly when the items of L that share an id carry the
\* same value (in particular when the ids of L are pairwise distinct); otherwise the
\* earlier occurrences of a repeated id are reported Different.
C2_SelfDiffMatchIffConsistent ==
    (dpc = "summarized" /\ left = right) =>
        /\ SameIdSameValue(left) <=> (\A n \in DOMAIN diffs : diffs[n].status = "Match")
        /\ SameIdSameValue(left) <=> (stats[1].total_differences = 0)
        /\ \A n \in DOMAIN diffs : diffs[n].status \in {"Match", "Different"}

\* C2 witness: a summarized self-diff of a two-item collection with distinct ids.
C2_Witness ==
    /\ dpc = "summarized" /\ left = right
    /\ Len(left) = 2 /\ left[1].id # left[2].id
    /\ Len(diffs) = 2 /\ diffs[1].status = "Match" /\ diffs[2].status = "Match"
    /\ stats[1].total_differences = 0

\* C3 (as stated): calculate_diff(L, []) returns as many results as L has distinct
\* ids, all of them OnlyLeft.
C3_EmptyRightDistinctIds ==
    (Diffed /\ right = <<>>) =>
        /\ Len(diffs) = Cardinality(IdsOf(left))
        /\ \A n \in DOMAIN diffs : diffs[n].status = "OnlyLeft"

\* C3 (amended): calculate_diff(L, []) returns as many results as L has items (which
\* is the number of distinct ids when no id is repeated in L), the n-th for the n-th
\* item of L, all of them OnlyLeft.
C3_EmptyRightOnePerItem ==
    (Diffed /\ right = <<>>) =>
        /\ Len(diffs) = Len(left)
        /\ \A n \in DOMAIN diffs :
              diffs[n].status = "OnlyLeft" /\ diffs[n].capability_id = left[n].id
        /\ NoDuplicateIds(left) => Len(diffs) = Cardinality(IdsOf(left))

\* C3 witness: a diff of a two-item left side against the empty right side.
C3_Witness ==
    /\ Diffed /\ right = <<>> /\ Len(left) = 2 /\ left[1].id = left[2].id
    /\ Len(diffs) = 2

\* C4 (as stated): the ids with a Different result in calculate_diff(L, R) are the ids
\* with a Different result in calculate_diff(R, L), with the same number of Different
\* results, for all L and R.
C4_DifferentSymmetric ==
    Diffed =>
        /\ StatusIds(diffs, "Different")
              = StatusIds(calculate_diff(right, left), "Different")
        /\ StatusCount(diffs, "Different")
              = StatusCount(calculate_diff(right, left), "Different")

\* C4 (amended): for all L and R in which no id is duplicated within a side, the ids
\* with a Different result in calculate_diff(L, R) are the ids with a Different result
\* in calculate_diff(R, L), with the same number of Different results.
C4_DifferentSymmetricNoDup ==
    (Diffed /\ NoDuplicateIds(left) /\ NoDuplicateIds(right)) =>
        /\ StatusIds(diffs, "Different")
              = StatusIds(calculate_diff(right, left), "Different")
        /\ StatusCount(diffs, "Different")
              = StatusCount(calculate_diff(right, left), "Different")

\* C4 witness: duplicate-free sides whose diff holds a Different and a Match result.
C4_Witness ==
    /\ Diffed /\ NoDuplicateIds(left) /\ NoDuplicateIds(right)
    /\ StatusCount(diffs, "Different") = 1
    /\ StatusCount(diffs, "Match") = 1

\* C5: an id has an OnlyLeft result in calculate_diff(L, R) iff it has an OnlyRight
\* result in calculate_diff(R, L), and an OnlyRight result in calculate_diff(L, R) iff
\* it has an OnlyLeft result in calculate_diff(R, L).
C5_OneSidedSymmetric ==
    Diffed =>
        /\ StatusIds(diffs, "OnlyLeft") = StatusIds(calculate_diff(right, left), "OnlyRight")
        /\ StatusIds(diffs, "OnlyRight") = StatusIds(calculate_diff(right, left), "OnlyLeft")

\* C5 witness: a diff that holds an OnlyLeft result and an OnlyRight result.
C5_Witness ==
    /\ Diffed
    /\ StatusIds(diffs, "OnlyLeft") # {}
    /\ StatusIds(diffs, "OnlyRight") # {}

\* C10: the result emitted for the n-th item of left is decided by the last item of
\* right with the same id: none gives (OnlyLeft, Medium, left-only tag); one with an
\* equal value gives (Match, Low, empty tag); one with another value gives
\* (Different, Medium, differs tag). Key and source play no part, and no result has
\* status Conflict or severity High.
C10_LeftResultByLookup ==
    Diffed =>
        /\ Len(diffs) >= Len(left)
        /\ \A n \in DOMAIN left :
              LET hits == {m \in DOMAIN right : right[m].id = left[n].id}
                  d == diffs[n]
              IN  /\ d.capability_id = left[n].id
                  /\ hits = {} =>
                        /\ d.status = "OnlyLeft" /\ d.severity = "Medium"
                        /\ d.highlight_class = <<"bg-blue-100 text-blue-800">>
                  /\ (hits # {} /\ right[Max(hits)].value = left[n].value) =>
                        /\ d.status = "Match" /\ d.severity = "Low"
                        /\ d.highlight_class = <<"">>
                  /\ (hits # {} /\ right[Max(hits)].value # left[n].value) =>
                        /\ d.status = "Different" /\ d.severity = "Medium"
                        /\ d.highlight_class = <<"bg-yellow-100 text-yellow-800">>
        /\ \A n \in DOMAIN diffs : diffs[n].status # "Conflict" /\ diffs[n].severity # "High"

\* C10 witness: a Match result whose two snapshots differ in key and source, next to
\* a Different result.
C10_Witness ==
    /\ Diffed /\ Len(left) = 2
    /\ diffs[1].status = "Match"
    /\ diffs[1].left_value[1].key # diffs[1].right_value[1].key
    /\ diffs[1].left_value[1].source # diffs[1].right_value[1].source
    /\ diffs[2].status = "Different"

(***************************************************************************)
(* Properties of the scanner (checked under Spec).                         *)
(***************************************************************************)
\* the segments of a path below the scan root
BelowRoot(path) == SubSeq(path, Len(start_dir) + 1, Len(path))
\* number of directory levels a path lies below the scan root
Level(path) == Len(path) - Len(start_dir)
StartsWithDot(name) == name # <<>> /\ Head(name) = "."
HasDotSegment(path) == \E k \in DOMAIN BelowRoot(path) : StartsWithDot(BelowRoot(path)[k])

\* C6 (as stated, for the directories other than the one start_dir names): when
\* read_dir fails on a directory reached during the scan, that directory is treated
\* as having no children and the traversal continues with the remaining stack
\* entries: scan_directory does not return Err, and it returns Ok once the work
\* stack is drained.
C6_ReadFailureTolerated ==
    "d0" \notin fs.unreadable =>
        /\ scan_result # "Err"
        /\ spc = "returned" => (scan_result = "Ok" /\ dir_stack = <<>>)

\* C7: no project collected by a scan with max_depth = d lies more than d directory
\* levels below the scan root (nor at the root itself).
C7_DepthBound ==
    \A n \in DOMAIN projects :
        /\ SubSeq(projects[n].path, 1, Len(start_dir)) = start_dir
        /\ Level(projects[n].path) >= 1
        /\ Level(projects[n].path) <= config.max_depth

\* C7 witness: a scan returned a project lying exactly max_depth >= 2 levels down
\* whose directory holds a further, visible project directory one level deeper.
C7_Witness ==
    /\ scan_result = "Ok"
    /\ config.max_depth >= 2
    /\ \E n \in DOMAIN projects :
          /\ Level(projects[n].path) = config.max_depth
          /\ \E e \in fs.edges :
                /\ e[1] = NodeOf(fs, start_dir, projects[n].path)
                /\ e[3] \in Dirs
                /\ ~StartsWithDot(e[2])
                /\ fs.contents[e[3]] # NoConfig

\* C8: with include_hidden = false, no collected project and no work-stack entry has,
\* below the scan root, a path segment whose name starts with '.'.
C8_HiddenExcluded ==
    ~config.include_hidden =>
        /\ \A n \in DOMAIN projects : ~HasDotSegment(projects[n].path)
        /\ \A n \in DOMAIN dir_stack : ~HasDotSegment(dir_stack[n].dir)

\* C8 witness: a scan with include_hidden = false returned projects from a root that
\* holds a hidden directory which is itself a project.
C8_Witness ==
    /\ scan_result = "Ok"
    /\ ~config.include_hidden
    /\ projects # <<>>
    /\ \E e \in fs.edges :
          /\ e[1] = "d0" /\ StartsWithDot(e[2]) /\ e[3] \in Dirs
          /\ fs.contents[e[3]] # NoConfig
          /\ "d0" \notin fs.unreadable

\* C9 (as stated, in the form a finite run refutes): whenever the scan has returned,
\* its work stack has become empty; and no directory is on the stack with a depth of
\* max_depth or more.
C9_ReturnsWithDrainedStack ==
    /\ spc = "returned" => dir_stack = <<>>
    /\ \A n \in DOMAIN dir_stack : dir_stack[n].depth < config.max_depth

\* the part of C9 the code keeps: the scan always returns (under FairSpec), and every
\* stack entry has a depth below max_depth
ScanTerminates == <>(spc = "returned")
PushedBelowMaxDepth == \A n \in DOMAIN dir_stack : dir_stack[n].depth < config.max_depth

(***************************************************************************)
(* Properties of calculate_summary_stats on arbitrary DiffResult sequences *)
(* (checked under ResultsSpec).                                            *)
(***************************************************************************)
\* C11: for every DiffResult sequence, also one built outside calculate_diff and
\* holding Conflict results, only_in_a is the number of OnlyLeft results, only_in_b
\* the number of OnlyRight results, different_values the number of Different or
\* Conflict results, total_differences the sum of the three; a Match is counted
\* in none of them.
C11_SummaryCounts ==
    dpc = "summarized" =>
        /\ stats[1].only_in_a = StatusCount(diffs, "OnlyLeft")
        /\ stats[1].only_in_b = StatusCount(diffs, "OnlyRight")
        /\ stats[1].different_values
             = StatusCount(diffs, "Different") + StatusCount(diffs, "Conflict")
        /\ stats[1].total_differences
             = stats[1].only_in_a + stats[1].only_in_b + stats[1].different_values
        /\ stats[1].total_differences = Len(diffs) - StatusCount(diffs, "Match")

\* a summarized sequence holding a Conflict, a Different, a Match and an OnlyLeft
C11_Witness ==
    /\ dpc = "summarized"
    /\ \A st \in {"Conflict", "Different", "Match", "OnlyLeft"} : StatusCount(diffs, st) = 1
    /\ stats[1].different_values = 2
    /\ stats[1].total_differences = 3

(***************************************************************************)
(* Properties of check_if_project (checked under ProjectSpec).             *)
(***************************************************************************)
\* number of the flags project and user of a ConfigSources that are true
TrueFlags(sources) == (IF sources.project THEN 1 ELSE 0) + (IF sources.user THEN 1 ELSE 0)

C13_CountEqualsFlags ==
    (ppc = "done" /\ proj_result # <<>>) =>
        proj_result[1].config_file_count = TrueFlags(proj_result[1].config_sources)

\* the parsed .mcp.json of a directory, if it can be read and is valid JSON
McpDocument(content) == content.mcp_text.json
HasServerObject(doc) ==
    /\ doc.kind = "object"
    /\ \E n \in DOMAIN doc.members :
          doc.members[n].key = "mcpServers" /\ doc.members[n].val.kind = "object"
ServerKeys(doc) ==
    LET n == CHOOSE k \in DOMAIN doc.members : doc.members[k].key = "mcpServers"
    IN  {doc.members[n].val.members[k].key : k \in DOMAIN doc.members[n].val.members}

\* C14: for a directory with a .mcp.json file check_if_project always returns the
\* project; its MCP server info reports n servers when the file is valid JSON
\* whose mcpServers is an object of n keys, 0 servers when the file is valid JSON
\* without mcpServers or with one that is no object, and is empty (None) when the
\* file cannot be read or is not valid JSON.
C14_McpServerInfo ==
    (ppc = "done" /\ proj_content.mcp = "file") =>
        /\ proj_result # <<>>
        /\ LET text == proj_content.mcp_text
                info == proj_result[1].mcp_servers
           IN  IF ~text.readable \/ McpDocument(proj_content) = <<>>
               THEN info = <<>>
               ELSE IF HasServerObject(McpDocument(proj_content)[1])
               THEN info = << <<FormatCount(
                                  Cardinality(ServerKeys(McpDocument(proj_content)[1])),
                                  " servers")>> >>
               ELSE info = << <<FormatCount(0, " servers")>> >>

\* a directory whose only config file is a .mcp.json that is not valid JSON has
\* been returned as a project, without server info
C14_Witness ==
    /\ ppc = "done"
    /\ proj_content.mcp = "file"
    /\ proj_content.settings = "absent"
    /\ proj_content.mcp_text = InvalidJson
    /\ proj_result # <<>>
    /\ proj_result[1].mcp_servers = <<>>

(***************************************************************************)
(* Properties of scan_projects (checked under EntrySpec).                  *)
(***************************************************************************)
\* C15: for every depth argument scan_projects scans with a max_depth between 1
\* and 5: 3 when depth is 0, 5 when depth exceeds 5, depth itself otherwise; and
\* include_hidden is always false. (The scan that follows never reads a directory
\* at that depth or deeper, and reports no hidden entry.)
C15_EffectiveDepth ==
    spc # "called" =>
        /\ config.max_depth \in 1..5
        /\ depth_arg = 0 => config.max_depth = 3
        /\ depth_arg > 5 => config.max_depth = 5
        /\ depth_arg \in 1..5 => config.max_depth = depth_arg
        /\ config.include_hidden = FALSE
        /\ \A n \in DOMAIN expanded : expanded[n].depth < config.max_depth
        /\ \A n \in DOMAIN projects :
              ~StartsWithDot(ProjectName(projects[n].path))

\* the scan of a request above 5 has ended Ok after reading a directory at depth 4
C15_Witness ==
    /\ depth_arg > 5
    /\ spc = "returned"
    /\ scan_result = "Ok"
    /\ \E n \in DOMAIN expanded : expanded[n].depth = 4

\* scan_projects(0) has run to its end and has read a directory at depth 2
C15_WitnessDefault ==
    /\ depth_arg = 0
    /\ spc = "returned"
    /\ \E n \in DOMAIN expanded : expanded[n].depth = 2

(***************************************************************************)
(* Properties of compare_projects (checked under CompareSpec).             *)
(***************************************************************************)
IsDirectory(target) == target.kind = "dir"
\* reading the file fails or its text is not JSON
FileFails(text) == ~text.readable \/ text.json = <<>>
\* the items of a capability sequence that come from the given source
FromSource(caps, src) == SelectSeq(caps, LAMBDA c : c.source = src)

\* C16: compare_projects returns an error and no diff whenever either path does
\* not exist or is not a directory; the left path is validated first, so with an
\* invalid left path the call fails before the right path is examined.
C16_InvalidPathFails ==
    /\ (cpc = "done" /\ (~IsDirectory(cmp_in.left) \/ ~IsDirectory(cmp_in.right))) =>
          (cmp_result = "Err" /\ diffs = <<>>)
    /\ ~IsDirectory(cmp_in.left) =>
          \A n \in DOMAIN cmp_examined : cmp_examined[n] # "right"
    /\ \A n \in DOMAIN cmp_examined : cmp_examined[n] = "right" => n > 1

\* a call with a valid left project and a right path that names a regular file
\* has ended with an error after looking at both
C16_Witness ==
    /\ cpc = "done"
    /\ IsDirectory(cmp_in.left)
    /\ left # <<>>
    /\ cmp_in.right = FileTarget
    /\ cmp_examined = <<"left", "right">>
    /\ cmp_result = "Err"

\* a call with a missing left path has ended with an error, the right one unexamined
C16_WitnessLeft ==
    /\ cpc = "done"
    /\ cmp_in.left = NoTarget
    /\ IsDirectory(cmp_in.right)
    /\ cmp_examined = <<"left">>
    /\ cmp_result = "Err"

\* what the claim expects of one side: a config file that cannot be read or parsed
\* makes its extractor return an error and adds no capability, while the other
\* file still contributes what its extractor gives
SideTolerant(target, caps) ==
    LET c == target.content
    IN  /\ (c.mcp = "file" /\ FileFails(c.mcp_text)) =>
              (~extract_mcp_capabilities(c.mcp_text).ok /\ FromSource(caps, "project") = <<>>)
        /\ (c.settings = "file" /\ FileFails(c.settings_text)) =>
              (~extract_settings_capabilities(c.settings_text).ok
               /\ FromSource(caps, "user") = <<>>)
        /\ (c.mcp = "file" /\ ~FileFails(c.mcp_text)) =>
              FromSource(caps, "project") = extract_mcp_capabilities(c.mcp_text).caps
        /\ (c.settings = "file" /\ ~FileFails(c.settings_text)) =>
              FromSource(caps, "user") = extract_settings_capabilities(c.settings_text).caps

\* C17: when both paths are existing directories, compare_projects never fails
\* because one config file is unreadable or malformed: the per-file extractor
\* reports an error, extract_project_capabilities takes the file as contributing
\* nothing, and the diff is computed from the files that remain.
C17_BadFileTolerated ==
    (cpc = "done" /\ IsDirectory(cmp_in.left) /\ IsDirectory(cmp_in.right)) =>
        /\ cmp_result = "Ok"
        /\ SideTolerant(cmp_in.left, left)
        /\ SideTolerant(cmp_in.right, right)
        /\ Len(diffs) >= Len(left)
        /\ \A n \in DOMAIN left : diffs[n].left_value = <<left[n]>>

\* a finished comparison whose left project has a malformed .mcp.json next to a
\* good settings file: the diff holds the settings capability
C17_Witness ==
    /\ cpc = "done"
    /\ IsDirectory(cmp_in.left) /\ IsDirectory(cmp_in.right)
    /\ cmp_in.left.content.mcp = "file"
    /\ cmp_in.left.content.mcp_text = InvalidJson
    /\ cmp_in.left.content.settings = "file"
    /\ cmp_in.right.content.settings_text = Unreadable
    /\ cmp_in.right.content.settings = "file"
    /\ cmp_result = "Ok"
    /\ \E n \in DOMAIN diffs : diffs[n].capability_id = <<"allowedTools">>
                               /\ diffs[n].status = "OnlyLeft"

(***************************************************************************)
(* Properties of concurrent scans (checked under ConcSpec).                *)
(***************************************************************************)
RECURSIVE AloneVisit(_, _, _, _, _)
\* What one scan does below (dir, depth) when nothing else runs: found are the
\* projects it reports there, fails says that it meets a directory it cannot read.
AloneVisit(f, start, cfg, dir, depth) ==
    IF IsSystemDir(dir) \/ depth >= cfg.max_depth
    THEN [fails |-> FALSE, found |-> {}]
    ELSE IF ReadDirFails(f, start, dir)
    THEN [fails |-> TRUE, found |-> {}]
    ELSE LET node == NodeOf(f, start, dir)
             visited == {name \in EntryNames(f, node) :
                            /\ EntryTarget(f, node, name) \in Dirs
                            /\ ~(~cfg.include_hidden /\ StartsWithDot(name))}
             below == [name \in visited |->
                          AloneVisit(f, start, cfg, Append(dir, name), depth + 1)]
         IN  [fails |-> \E name \in visited : below[name].fails,
              found |-> UNION {Range(check_if_project(Append(dir, name),
                                          f.contents[EntryTarget(f, node, name)]))
                               \cup below[name].found : name \in visited}]

\* the result of scan_directory(start, cfg, 0) run alone over f
Alone(f, start, cfg) == AloneVisit(f, start, cfg, start, 0)

\* a single scan returns what Alone says (checked under Spec)
AloneMatchesSingleScan ==
    spc = "returned" =>
        /\ scan_result = "Err" <=> Alone(fs, start_dir, config).fails
        /\ scan_result = "Ok" =>
             /\ Range(projects) = Alone(fs, start_dir, config).found
             /\ Len(projects) = Cardinality(Range(projects))

\* C18: two scans running concurrently over an unchanging filesystem are
\* independent: under every interleaving each returns exactly the set of
\* projects it would return when run alone.
C18_ConcurrentScansIndependent ==
    \A i \in ScanIds :
        LET s == scans[i]
            alone == Alone(conc_fs, s.start_dir, s.config)
        IN  /\ Range(s.projects) \subseteq alone.found
            /\ s.spc = "returned" =>
                 /\ s.scan_result = "Err" <=> alone.fails
                 /\ s.scan_result = "Ok" =>
                      /\ Range(s.projects) = alone.found
                      /\ Len(s.projects) = Cardinality(alone.found)

\* both scans have returned Ok with different, non-empty project sets, and each
\* took steps while the other was in the middle of a for loop
C18_Witness ==
    /\ \A i \in ScanIds :
          /\ scans[i].spc = "returned"
          /\ scans[i].scan_result = "Ok"
          /\ scans[i].overlapped
          /\ scans[i].projects # <<>>
    /\ Cardinality(Range(scans[1].projects)) < Cardinality(Range(scans[2].projects))

(***************************************************************************)
(* Properties of application startup (checked under SetupSpec).            *)
(***************************************************************************)
\* C19: a failure to start the watcher at startup is not fatal: whether
\* watch_config_files returns Ok or Err, setup goes on to initialise the error
\* logger and returns Ok.
C19_WatcherFailureNotFatal ==
    /\ setup_result # "Err"
    /\ setup_pc # "done" => ENABLED SetupNext
    /\ setup_pc = "done" =>
          /\ watch_result \in {"Ok", "Err"}
          /\ logger_result \in {"Ok", "Err"}
          /\ setup_result = "Ok"

\* setup has returned Ok although the watch of an existing path failed; the error
\* logger was initialised after that
C19_Witness ==
    /\ setup_pc = "done"
    /\ env.debouncer_ok
    /\ watch_result = "Err"
    /\ ~watcher_state
    /\ logger_result = "Ok"
    /\ setup_result = "Ok"

(***************************************************************************)
(* Order of the results of calculate_diff (checked under DiffSpec).        *)
(***************************************************************************)
\* the right items whose id no left item carries, in right's order
RightOnlyItems == SelectSeq(right, LAMBDA c : \A m \in DOMAIN left : left[m].id # c.id)

\* C20: the results for the left items come first, one per left item in left's
\* order, followed by the OnlyRight results in right's order; no OnlyRight result
\* precedes a result produced from a left item.
C20_ResultOrder ==
    Diffed =>
        /\ Len(diffs) = Len(left) + Len(RightOnlyItems)
        /\ \A k \in 1..Len(left) :
              /\ diffs[k].capability_id = left[k].id
              /\ diffs[k].left_value = <<left[k]>>
              /\ diffs[k].status # "OnlyRight"
        /\ \A k \in 1..Len(RightOnlyItems) :
              /\ diffs[Len(left) + k].capability_id = RightOnlyItems[k].id
              /\ diffs[Len(left) + k].right_value = <<RightOnlyItems[k]>>
              /\ diffs[Len(left) + k].status = "OnlyRight"
        /\ \A i, j \in DOMAIN diffs :
              (diffs[i].status = "OnlyRight" /\ diffs[j].status # "OnlyRight") => j < i

\* a diff of two different left items followed by two different right-only items
C20_Witness ==
    /\ Diffed
    /\ Len(left) = 2 /\ left[1] # left[2]
    /\ Len(RightOnlyItems) = 2 /\ right[1] # right[2]
    /\ Len(diffs) = 4
    /\ diffs[2].left_value = <<left[2]>>
    /\ diffs[3].right_value = <<right[1]>>
    /\ diffs[4].right_value = <<right[2]>>

(***************************************************************************)
(* Duplicate ids and the shape of results (checked under DiffSpec).        *)
(***************************************************************************)
\* positions of the right items that carry the id
RightHits(id) == {m \in DOMAIN right : right[m].id = id}

\* C21: last write wins on duplicate ids: when an id occurs several times in right,
\* every left item with that id is compared against the last occurrence in right,
\* which is the right_value snapshot of its result; earlier occurrences never
\* influence the status.
C21_LastWriteWins ==
    Diffed =>
        \A n \in DOMAIN left :
            RightHits(left[n].id) # {} =>
                LET last == right[Max(RightHits(left[n].id))]
                IN  /\ diffs[n].right_value = <<last>>
                    /\ diffs[n].status = IF left[n].value = last.value
                                         THEN "Match" ELSE "Different"

\* right holds an id twice with different values; the left item equals the first
\* occurrence and is reported Different against the second
C21_Witness ==
    /\ Diffed
    /\ Len(left) = 1 /\ Len(right) = 2
    /\ right[1].id = left[1].id /\ right[2].id = left[1].id
    /\ right[1].value = left[1].value /\ right[2].value # left[1].value
    /\ diffs[1].status = "Different"
    /\ diffs[1].right_value = <<right[2]>>

\* C22: every DiffResult of calculate_diff has at least one snapshot; with status
\* OnlyLeft only the left one, with OnlyRight only the right one, with Match or
\* Different both; and capability_id is the id of every snapshot present.
C22_SnapshotShape ==
    Diffed =>
        \A n \in DOMAIN diffs :
            LET d == diffs[n] IN
            /\ ~(d.left_value = <<>> /\ d.right_value = <<>>)
            /\ d.status = "OnlyLeft" => (d.left_value # <<>> /\ d.right_value = <<>>)
            /\ d.status = "OnlyRight" => (d.left_value = <<>> /\ d.right_value # <<>>)
            /\ d.status \in {"Match", "Different"} =>
                  (d.left_value # <<>> /\ d.right_value # <<>>)
            /\ d.left_value # <<>> => d.left_value[1].id = d.capability_id
            /\ d.right_value # <<>> => d.right_value[1].id = d.capability_id

\* a diff holding a Match, a Different and an OnlyRight result
C22_Witness ==
    /\ Diffed
    /\ Len(diffs) = 3
    /\ diffs[1].status = "Match"
    /\ diffs[2].status = "Different"
    /\ diffs[3].status = "OnlyRight"

(***************************************************************************)
(* Properties of categorize_differences (checked under CategorizeSpec).    *)
(***************************************************************************)
Categorized == dpc \in {"categorized", "recategorized"}

\* C23: categorize_differences changes nothing but the highlight tag of results
\* whose tag is missing, which it sets from status (OnlyLeft: left-only tag,
\* OnlyRight: right-only tag, Different or Conflict: differs tag, Match: empty tag);
\* results that carry a tag, and the length, order, ids, snapshots, status and
\* severity of all results, stay as they were.
C23_OnlyMissingTagsFilled ==
    Categorized =>
        /\ Len(cat_runs[1]) = Len(diffs)
        /\ \A n \in DOMAIN diffs :
              LET before == diffs[n]
                  after == cat_runs[1][n]
              IN  /\ after.capability_id = before.capability_id
                  /\ after.left_value = before.left_value
                  /\ after.right_value = before.right_value
                  /\ after.status = before.status
                  /\ after.severity = before.severity
                  /\ before.highlight_class # <<>> => after.highlight_class = before.highlight_class
                  /\ before.highlight_class = <<>> =>
                        after.highlight_class =
                            CASE before.status = "OnlyLeft" -> <<"bg-blue-100 text-blue-800">>
                              [] before.status = "OnlyRight" -> <<"bg-green-100 text-green-800">>
                              [] before.status \in {"Different", "Conflict"} ->
                                     <<"bg-yellow-100 text-yellow-800">>
                              [] before.status = "Match" -> <<"">>

\* a categorized sequence of the frontend: an untagged Conflict got the differs
\* tag, an untagged Match the empty tag, and a custom tag on an OnlyLeft was kept
C23_Witness ==
    /\ Categorized
    /\ Len(diffs) = 3
    /\ diffs[1].status = "Conflict" /\ diffs[1].highlight_class = <<>>
    /\ diffs[2].status = "Match" /\ diffs[2].highlight_class = <<>>
    /\ diffs[3].status = "OnlyLeft" /\ diffs[3].highlight_class = <<"custom">>
    /\ cat_runs[1][1].highlight_class = <<"bg-yellow-100 text-yellow-800">>
    /\ cat_runs[1][2].highlight_class = <<"">>
    /\ cat_runs[1][3].highlight_class = <<"custom">>

\* C24: categorize_differences is idempotent: categorizing the categorized
\* sequence again gives the same sequence; and applied to the output of
\* calculate_diff it returns that output unchanged.
C24_Idempotent ==
    /\ dpc = "recategorized" => cat_runs[2] = cat_runs[1]
    /\ (Categorized /\ diffs = calculate_diff(left, right)) => cat_runs[1] = diffs

\* the second categorization of a sequence the first one had to change
C24_Witness ==
    /\ dpc = "recategorized"
    /\ cat_runs[1] # diffs
    /\ cat_runs[2] = cat_runs[1]
    /\ \E n \in DOMAIN diffs : diffs[n].highlight_class = <<>> /\ diffs[n].status = "OnlyRight"

\* the output of calculate_diff for non-empty collections, categorized twice
C24_WitnessDiff ==
    /\ dpc = "recategorized"
    /\ Len(left) = 2 /\ Len(right) = 2
    /\ Len(diffs) >= 3
    /\ cat_runs[1] = diffs

(***************************************************************************)
(* System paths (checked under Spec).                                      *)
(***************************************************************************)
SystemPaths == {<<NameProc>>, <<NameSys>>, <<NameDev>>}

\* no directory whose path is /proc, /sys or /dev is ever enumerated
SystemPathsNeverRead == \A n \in DOMAIN expanded : expanded[n].dir \notin SystemPaths

\* C25: system paths are hard-skipped: during any scan, whatever include_hidden
\* is, a directory whose path is exactly /proc, /sys or /dev is never enumerated
\* and never emitted as a project.
C25_SystemPathsSkipped ==
    /\ \A n \in DOMAIN expanded : expanded[n].dir \notin SystemPaths
    /\ \A n \in DOMAIN projects : projects[n].path \notin SystemPaths

\* the regular files with extension md directly inside .claude/agents
AgentFiles(content) ==
    {f \in content.agents_entries : f.kind = "file" /\ Extension(f.name) = <<ExtMd>>}

\* C26: a sub-agent count is reported only when the directory .claude/agents
\* exists, and the reported number is the number of regular files with extension
\* md directly inside that agents directory.
C26_AgentsCounted ==
    (ppc = "done" /\ proj_result # <<>> /\ proj_result[1].sub_agents # <<>>) =>
        /\ proj_content.agents = "dir"
        /\ proj_result[1].sub_agents[1] =
              <<FormatCount(Cardinality(AgentFiles(proj_content)), " agents")>>

\* first half of C26: a count is reported only where .claude/agents is a directory
C26_CountWithoutAgentsDir ==
    (ppc = "done" /\ proj_result # <<>> /\ proj_result[1].sub_agents # <<>>) =>
        proj_content.agents = "dir"

\* second half of C26: where .claude/agents is a directory, the reported number
\* is the number of its md files
C26_CountOfAgentsDir ==
    (ppc = "done" /\ proj_result # <<>> /\ proj_result[1].sub_agents # <<>>
        /\ proj_content.agents = "dir") =>
        proj_result[1].sub_agents[1] =
            <<FormatCount(Cardinality(AgentFiles(proj_content)), " agents")>>

(***************************************************************************)
(* Properties of the running watchers (checked under WatchSpec).           *)
(***************************************************************************)
\* C27: a started watcher stays alive: after the startup call of
\* watch_config_files and any number of watch_projects calls, every watcher whose
\* start returned Ok still has its debouncer held in managed state.
C27_StartedWatcherHeld ==
    \A i \in DOMAIN watchers : watchers[i].result = "Ok" => held = i

\* the recognized configuration files: .claude.json, .mcp.json, settings.json
\* inside .claude, a .md file inside .claude/agents
Recognized(path) ==
    /\ path # <<>>
    /\ LET n == Len(path)
       IN  \/ path[n] \in {NameClaudeJson, NameMcpJson}
           \/ n >= 2 /\ path[n] = NameSettings /\ path[n - 1] = NameClaude
           \/ /\ n >= 3
              /\ Extension(path[n]) = <<ExtMd>>
              /\ path[n - 1] = NameAgents
              /\ path[n - 2] = NameClaude

\* C28: every change event the watchers emit concerns a recognized configuration
\* file and carries a change kind that is one of create, modify or delete; a
\* change to any other path produces no event.
C28_OnlyConfigEvents ==
    /\ \A n \in DOMAIN emitted :
          /\ Recognized(emitted[n].path)
          /\ emitted[n].change_type \in {"create", "modify", "delete"}
    /\ \A n \in DOMAIN handled :
          ~Recognized(handled[n].path) =>
              \A m \in DOMAIN emitted : emitted[m].path # handled[n].path

\* what holds of the events of the watcher started by watch_config_files
ConfigWatcherEvents ==
    \A n \in DOMAIN emitted :
        emitted[n].event = "config-changed" =>
            /\ Recognized(emitted[n].path)
            /\ emitted[n].change_type \in {"modify", "delete"}

(***************************************************************************)
(* The collection extract_project_capabilities returns (CompareSpec).      *)
(***************************************************************************)
\* the keys of the mcpServers object of a directory's .mcp.json, none when the
\* file is missing, fails, or has no such object
ServerKeysOf(content) ==
    IF content.mcp = "file" /\ ~FileFails(content.mcp_text)
       /\ HasServerObject(content.mcp_text.json[1])
    THEN ServerKeys(content.mcp_text.json[1])
    ELSE {}

\* whether a directory's settings.json is there, parses, and has the top-level key
HasSetting(content, k) ==
    /\ content.settings = "file"
    /\ ~FileFails(content.settings_text)
    /\ content.settings_text.json[1].kind = "object"
    /\ \E n \in DOMAIN content.settings_text.json[1].members :
          content.settings_text.json[1].members[n].key = k

\* the ids of the settings capabilities expected for a directory, in order
SettingIdsOf(content) ==
    (IF HasSetting(content, "allowedTools") THEN << <<"allowedTools">> >> ELSE <<>>)
    \o (IF HasSetting(content, "disallowedTools") THEN << <<"disallowedTools">> >> ELSE <<>>)

\* caps is one project capability per mcpServers key followed by the settings
\* capabilities that are present, and no two items share an id
ExactCollection(content, caps) ==
    LET proj == FromSource(caps, "project")
        user == FromSource(caps, "user")
    IN  /\ caps = proj \o user
        /\ Len(proj) = Cardinality(ServerKeysOf(content))
        /\ {<<proj[n].id, proj[n].key>> : n \in DOMAIN proj} =
              {<< <<"mcp.", k>>, <<"mcpServers.", k>> >> : k \in ServerKeysOf(content)}
        /\ [n \in DOMAIN user |-> user[n].id] = SettingIdsOf(content)
        /\ \A n \in DOMAIN user : user[n].key = user[n].id
        /\ \A m, n \in DOMAIN caps : m # n => caps[m].id # caps[n].id

\* C29: the collection extract_project_capabilities returns for a directory is
\* exactly one capability per key of mcpServers (id mcp.<name>, key
\* mcpServers.<name>, source project) followed by the allowedTools and the
\* disallowedTools capability when present in settings.json (source user);
\* unknown or absent keys add nothing; the ids are pairwise distinct, so that
\* compare_projects returns exactly one result per id.
C29_ExactCollection ==
    /\ (cpc # "start" /\ IsDirectory(cmp_in.left)) =>
          ExactCollection(cmp_in.left.content, left)
    /\ (cpc \in {"right_done", "done"} /\ IsDirectory(cmp_in.left)
          /\ IsDirectory(cmp_in.right)) =>
          ExactCollection(cmp_in.right.content, right)
    /\ (cpc = "done" /\ cmp_result = "Ok") =>
          /\ Len(diffs) = Cardinality(IdsOf(left) \cup IdsOf(right))
          /\ \A i \in IdsOf(left) \cup IdsOf(right) :
                Cardinality({n \in DOMAIN diffs : diffs[n].capability_id = i}) = 1

\* a comparison has returned; the left project gave two server capabilities and
\* both settings capabilities from a settings.json that also has an unknown key,
\* the right project one server capability and one settings capability
C29_Witness ==
    /\ cpc = "done"
    /\ cmp_result = "Ok"
    /\ Len(FromSource(left, "project")) = 2
    /\ Len(FromSource(left, "user")) = 2
    /\ json_get(cmp_in.left.content.settings_text.json[1], "model") # <<>>
    /\ Len(right) = 2
    /\ Len(FromSource(right, "user")) = 1
    /\ Len(diffs) = 4

(***************************************************************************)
(* Completeness of a scan on a tree (checked under Spec).                  *)
(***************************************************************************)
\* the entries of directory node d that are directories
DirEdges(f, d) == {x \in f.edges : x[1] = d /\ x[3] \in Dirs}

\* tree-shaped: the root is no entry of any directory and every other directory
\* is an entry of at most one directory
TreeShaped(f) ==
    /\ \A x \in f.edges : x[3] # "d0"
    /\ \A x, y \in f.edges : (x[3] \in Dirs /\ x[3] = y[3]) => x = y

RECURSIVE PathsFrom(_, _, _)
\* the paths, relative to node d, of the directories at most k levels below d
PathsFrom(f, d, k) ==
    IF k = 0 THEN {<<>>}
    ELSE {<<>>} \cup UNION {{<<x[2]>> \o q : q \in PathsFrom(f, x[3], k - 1)} :
                              x \in DirEdges(f, d)}

\* a directory strictly between the root and the path is /proc, /sys or /dev
HasSystemAncestor(path) ==
    \E k \in (Len(start_dir) + 1)..(Len(path) - 1) : SubSeq(path, 1, k) \in SystemPaths

\* the project predicate: the directory directly holds a regular file .mcp.json
\* or a regular file .claude/settings.json
IsProjectDir(f, path) ==
    LET content == f.contents[NodeOf(f, start_dir, path)]
    IN  content.mcp = "file" \/ content.settings = "file"

\* the directories a complete scan is to return
ExpectedProjects ==
    {path \in {start_dir \o q : q \in PathsFrom(fs, "d0", config.max_depth) \ {<<>>}} :
        /\ ~HasDotSegment(path)
        /\ ~HasSystemAncestor(path)
        /\ IsProjectDir(fs, path)}

\* C30: scan completeness: on a tree-shaped filesystem where every read
\* succeeds, scan_directory with max_depth d >= 1 and include_hidden false
\* returns Ok with, exactly once each, precisely the directories 1..d levels below
\* the root that have no '.'-prefixed segment and no /proc, /sys or /dev ancestor
\* below the root and that satisfy the project predicate; project directories are
\* still descended into, and the root itself is never returned.
C30_ScanComplete ==
    (spc = "returned" /\ TreeShaped(fs) /\ fs.unreadable = {}
        /\ config.max_depth >= 1 /\ ~config.include_hidden) =>
        /\ scan_result = "Ok"
        /\ {projects[n].path : n \in DOMAIN projects} = ExpectedProjects
        /\ Len(projects) = Cardinality(ExpectedProjects)
        /\ \A n \in DOMAIN projects : projects[n].path # start_dir

\* a scan of a tree with max_depth 2 and include_hidden false has returned the
\* project /home/a and the project /home/a/b nested in it, and nothing else,
\* although /home itself holds config files
C30_Witness ==
    /\ spc = "returned"
    /\ TreeShaped(fs)
    /\ fs.unreadable = {}
    /\ config = [max_depth |-> 2, include_hidden |-> FALSE]
    /\ start_dir = <<NameHome>>
    /\ IsProjectDir(fs, start_dir)
    /\ [n \in DOMAIN projects |-> projects[n].path] =
          << <<NameHome, NameA>>, <<NameHome, NameA, NameB>> >>

\* a scan of the tree below / has returned nothing: its only project directory,
\* /.h, is hidden
C30_WitnessSkipped ==
    /\ spc = "returned"
    /\ TreeShaped(fs)
    /\ fs.unreadable = {}
    /\ ~config.include_hidden
    /\ start_dir = <<>>
    /\ <<"d0", NameHidden, "d2">> \in fs.edges
    /\ IsProjectDir(fs, <<NameHidden>>)
    /\ projects = <<>>
====
